---------------------------- MODULE Spec2Model ----------------------------
(***************************************************************************)
(* A model of the workflow engine of project-evaluation-agents:            *)
(*                                                                         *)
(*   - Crew (src/direct_agents/crew.py): the task registry and its two     *)
(*     execution strategies, run_sequential and run_parallel;              *)
(*   - ProjectEvolutionCrew (src/backup/crew.py): run_sequential and       *)
(*     run_parallel over its five fixed tasks;                             *)
(*   - ProjectEvolutionCrew.run_autonomous (src/crew.py and                *)
(*     src/backup/crew.py): the feasibility loop and the capacity loop.    *)
(*                                                                         *)
(* Task ids are the integers 1..NumTasks in registration order (the order  *)
(* of list(self.tasks.items())); NumTasks + 1 is an id that is not         *)
(* registered.                                                             *)
(***************************************************************************)
EXTENDS Integers, Sequences, FiniteSets, TLC

\* ------------------------------------------------------------------ bounds

\* Number of registered tasks of a Crew.
NumTasks == 3

\* Largest number of declared dependencies of one task.
MaxDeps == 2

\* config['agents']['max_iterations'] of the default configuration.
DefaultMaxIterations == 3

\* Largest configured max_iterations.
MaxIterationsBound == 3

\* Largest number of candidate features of a sprint plan.
MaxFeatures == 3

\* Loop bodies after which a loop that its own counter does not stop is cut off.
MaxLoopBodies == 4

\* ------------------------------------------------------------ the registry

Tasks == 1..NumTasks

\* An id that no add_task call registered (a typo'd dependency).
Dangling == NumTasks + 1

DepIds == Tasks \cup {Dangling}

\* The value of outputs_lock when no thread holds it (threading.Lock(), crew.py
\* line 192); a thread that holds it is named by its task id.
Unlocked == 0

\* A key of the initial context that is not a task id.
ContextKey == NumTasks + 2

\* Python dicts are functions; {} is the empty function.
EmptyDict == << >>

DictPut(d, k, v) == (k :> v) @@ d

\* What a capability returns for task t, and the message of the exception it raises.
TaskOutput(t) == <<"ok", t>>

ExceptionMessage(t) == <<"boom", t>>

\* f"Error: {str(e)}", crew.py line 234.
ErrorString(e) == <<"Error: ">> \o e

\* Agent.execute_task, src/direct_agents/agent.py lines 102-125: the text of the
\* model's response, or, when the API call raises, the error message that the
\* except clause returns.
ApiErrorString(t) == <<"Error executing task with Anthropic API: ", t>>

execute_task(t) == {TaskOutput(t), ApiErrorString(t)}

InitialContexts == {EmptyDict, (ContextKey :> <<"feedback">>)}

\* 'sequential' and 'parallel' are the modes Crew.run supports; "batch" stands
\* for any other string.
Modes == {"sequential", "parallel", "batch"}

DependencyLists == {S \in SUBSET DepIds : Cardinality(S) <= MaxDeps}

VARIABLES
    mode,             \* Crew.mode
    dependencies,     \* Task.dependencies of every registered task
    initial_context,  \* the argument of run / run_sequential / run_parallel
    crew_pc,          \* where the caller of run_* is
    seq_i,            \* run_sequential: index of the next task of task_items
    outputs,          \* Crew.outputs
    result,           \* the mapping run_* returns
    task_status,      \* Crew.task_status ("none": no entry)
    execution_log,    \* Crew.execution_log, as the set of its messages
    progress_calls,   \* the calls of progress_callback made by run_sequential
    invocations,      \* the tasks whose capability was invoked, in order
    call_context,     \* the context each capability invocation received
    shared_outputs,   \* run_parallel: the map the workers poll
    result_queue,     \* run_parallel: the completion queue
    worker_pc,        \* run_parallel: where each worker thread is
    wait_idx,         \* run_parallel: the dependency a worker is waiting for
    task_context,     \* run_parallel: a worker's local task_context
    task_result,      \* run_parallel: a worker's local task_result
    outputs_lock,     \* run_parallel: the thread that holds outputs_lock
    drained           \* run_parallel: items the coordinator took from the queue

crewVars == <<mode, dependencies, initial_context, crew_pc, seq_i, outputs, result,
              task_status, execution_log, progress_calls, invocations,
              call_context, shared_outputs, result_queue, worker_pc, wait_idx,
              task_context, task_result, outputs_lock, drained>>

VARIABLES
    impl,                       \* "main": src/crew.py, "backup": src/backup/crew.py
    auto_pc,                    \* where run_autonomous is
    max_iterations,             \* config['agents']['max_iterations']
    average_feasibility_score,  \* feasibility_assessment['average_feasibility_score']
    iteration_count,            \* the local iteration_count
    total_iterations,           \* iteration_metrics['total_iterations']
    iteration_triggers,         \* iteration_metrics['iteration_triggers']
    feature_iterations,         \* iteration_metrics['feature_iterations']
    sprint_iterations,          \* iteration_metrics['sprint_iterations']
    adjusted_capacity,          \* capacity['adjusted_capacity'], in tenths of a point
    original_capacity,          \* the local original_capacity, in tenths of a point
    refined_features,           \* the candidate features of the sprint plan
    feature_proposals,          \* feature_proposals['features'], where the stock tools assess it
    capacity_utilization        \* sprint_plan['capacity_utilization']

autoVars == <<impl, auto_pc, max_iterations, average_feasibility_score,
              iteration_count, total_iterations, iteration_triggers,
              feature_iterations, sprint_iterations, adjusted_capacity,
              original_capacity, refined_features, feature_proposals,
              capacity_utilization>>

VARIABLES
    backup_api_key,       \* whether os.getenv("ANTHROPIC_API_KEY") has a value
    backup_mode,          \* ProjectEvolutionCrew.mode of src/backup/crew.py
    backup_pc,            \* where the caller of the backup's run_* is
    backup_i,             \* backup run_sequential: index into tasks_sequence
    backup_result,        \* the local result of the backup's run_*
    backup_result_queue,  \* backup run_parallel: the completion queue
    backup_thread_pc,     \* backup run_parallel: where each thread is
    backup_context,       \* the context_items built for each task, by key
    backup_task_result,   \* backup run_parallel: a thread's local task_result
    backup_drained,       \* backup run_parallel: items taken from the queue
    backup_invocations    \* the tasks handed to DirectAnthropicExecutor, in order

backupVars == <<backup_api_key, backup_mode, backup_pc, backup_i, backup_result,
                backup_result_queue, backup_thread_pc, backup_context,
                backup_task_result, backup_drained, backup_invocations>>

\* The registry of a Crew under construction (src/direct_agents/crew.py, line
\* 40): self.tasks as the sequence of its (key, value) entries in the order a
\* Python dict keeps them, and the calls of add_task made so far.
VARIABLES tasks, add_task_calls

\* The outcome of the construction of an Agent (src/direct_agents/agent.py,
\* lines 27-65): "none" before it, then "constructed" or "raised".
VARIABLES agent_init

VARIABLES
    task_self,        \* a Task: its description, context and dependencies
    execute_calls     \* the calls of Task.execute on it, with the context each passed on

regVars == <<tasks, add_task_calls, agent_init, task_self, execute_calls>>

vars == <<crewVars, autoVars, backupVars, regVars>>

parVars == <<shared_outputs, result_queue, worker_pc, wait_idx, task_context,
             task_result, outputs_lock, drained>>

\* ------------------------------------------------------------ Task, Agent

\* Task.execute with a stored context of None (no caller in the repository
\* passes context= to a Task that a Crew runs): the combined context is the
\* additional context when that is non-empty and None otherwise.  Agent.execute_task
\* renders None and {} alike as no context; a mapping as its items.
TaskExecuteContext(additional_context) ==
    IF additional_context = EmptyDict THEN EmptyDict ELSE additional_context

Log(msg, id) == [msg |-> msg, id |-> id]

\* ------------------------------------------------------------------ Crew

\* Crew.__init__ followed by NumTasks add_task calls.
CrewInit ==
    /\ mode \in Modes
    /\ dependencies \in [Tasks -> DependencyLists]
    /\ initial_context \in InitialContexts
    /\ crew_pc = "ready"
    /\ seq_i = 1
    /\ outputs = EmptyDict
    /\ result = EmptyDict
    /\ task_status = [t \in Tasks |-> "none"]
    /\ execution_log = {}
    /\ progress_calls = << >>
    /\ invocations = << >>
    /\ call_context = [t \in Tasks |-> EmptyDict]
    /\ shared_outputs = EmptyDict
    /\ result_queue = << >>
    /\ worker_pc = [t \in Tasks |-> "idle"]
    /\ wait_idx = [t \in Tasks |-> 1]
    /\ task_context = [t \in Tasks |-> EmptyDict]
    /\ task_result = [t \in Tasks |-> << >>]
    /\ outputs_lock = Unlocked
    /\ drained = 0

\* A context of every output there is, declared as a dependency or not.
DependencyContextAll(t, outs) == outs

\* The dependencies of task t that have an output, as the dict task_context.
DependencyContext(t, outs) ==
    [d \in dependencies[t] \cap DOMAIN outs |-> outs[d]]

\* run_sequential, lines 112-120.
SeqStart ==
    /\ mode = "sequential"
    /\ crew_pc = "ready"
    /\ crew_pc' = "seq"
    /\ execution_log' = execution_log \cup {Log("Starting sequential workflow", 0)}
    /\ result' = initial_context
    /\ seq_i' = 1
    /\ UNCHANGED <<mode, dependencies, initial_context, outputs, task_status,
                   progress_calls, invocations, call_context, parVars>>
    /\ UNCHANGED <<autoVars, backupVars, regVars>>

\* One pass of the loop of run_sequential, lines 122-161, for task_items[seq_i].
\* A skip without the progress update of line 136.
SeqSkipUnreported(t) ==
    /\ \E d \in dependencies[t] : d \notin DOMAIN outputs
    /\ execution_log' = execution_log \cup
          { Log("Executing task", t),
            Log("depends on a task which has not been executed yet", t),
            Log("Skipping task due to unsatisfied dependencies", t) }
    /\ task_status' = [task_status EXCEPT ![t] = "skipped"]
    /\ progress_calls' = Append(progress_calls, <<t, "running", t - 1, NumTasks>>)
    /\ UNCHANGED <<outputs, result, invocations, call_context>>

SeqSkip(t) ==
    /\ \E d \in dependencies[t] : d \notin DOMAIN outputs
    /\ execution_log' = execution_log \cup
          { Log("Executing task", t),
            Log("depends on a task which has not been executed yet", t),
            Log("Skipping task due to unsatisfied dependencies", t) }
    /\ task_status' = [task_status EXCEPT ![t] = "skipped"]
    /\ progress_calls' = progress_calls \o
          << <<t, "running", t - 1, NumTasks>>, <<t, "skipped", t - 1, NumTasks>> >>
    /\ UNCHANGED <<outputs, result, invocations, call_context>>

\* The loop pass without the dependency check of lines 126-137.
SeqExecuteUnguarded(t) ==
    /\ invocations' = Append(invocations, t)
    /\ call_context' = [call_context EXCEPT
                           ![t] = TaskExecuteContext(DependencyContext(t, outputs))]
    /\ \/ /\ execution_log' = execution_log \cup
                { Log("Executing task", t), Log("Task completed", t) }
          /\ task_status' = [task_status EXCEPT ![t] = "completed"]
          /\ progress_calls' = progress_calls \o
                << <<t, "running", t - 1, NumTasks>>,
                   <<t, "completed", t - 1, NumTasks>> >>
          /\ \E task_result_value \in execute_task(t) :
                /\ outputs' = DictPut(outputs, t, task_result_value)
                /\ result' = DictPut(result, t, task_result_value)
       \/ /\ execution_log' = execution_log \cup
                { Log("Executing task", t), Log("Error executing task", t) }
          /\ task_status' = [task_status EXCEPT ![t] = "error"]
          /\ progress_calls' = progress_calls \o
                << <<t, "running", t - 1, NumTasks>>, <<t, "error", t - 1, NumTasks>> >>
          /\ UNCHANGED <<outputs, result>>

\* A pass that recognises the error text of Agent.execute_task and reports the
\* task as failed.
SeqExecuteErrorAware(t) ==
    /\ \A d \in dependencies[t] : d \in DOMAIN outputs
    /\ invocations' = Append(invocations, t)
    /\ call_context' = [call_context EXCEPT
                           ![t] = TaskExecuteContext(DependencyContext(t, outputs))]
    /\ \/ /\ execution_log' = execution_log \cup
                { Log("Executing task", t), Log("Task completed", t) }
          /\ progress_calls' = progress_calls \o
                << <<t, "running", t - 1, NumTasks>>,
                   <<t, "completed", t - 1, NumTasks>> >>
          /\ \E task_result_value \in execute_task(t) :
                /\ outputs' = DictPut(outputs, t, task_result_value)
                /\ result' = DictPut(result, t, task_result_value)
          /\ task_status' = [task_status EXCEPT
                                ![t] = IF outputs'[t] = ApiErrorString(t)
                                       THEN "error" ELSE "completed"]
       \/ /\ execution_log' = execution_log \cup
                { Log("Executing task", t), Log("Error executing task", t) }
          /\ task_status' = [task_status EXCEPT ![t] = "error"]
          /\ progress_calls' = progress_calls \o
                << <<t, "running", t - 1, NumTasks>>, <<t, "error", t - 1, NumTasks>> >>
          /\ UNCHANGED <<outputs, result>>

\* A pass that stores the task's value in self.outputs only, without line 156.
SeqExecuteOutputsOnly(t) ==
    /\ \A d \in dependencies[t] : d \in DOMAIN outputs
    /\ invocations' = Append(invocations, t)
    /\ call_context' = [call_context EXCEPT
                           ![t] = TaskExecuteContext(DependencyContext(t, outputs))]
    /\ \/ /\ execution_log' = execution_log \cup
                { Log("Executing task", t), Log("Task completed", t) }
          /\ task_status' = [task_status EXCEPT ![t] = "completed"]
          /\ progress_calls' = progress_calls \o
                << <<t, "running", t - 1, NumTasks>>,
                   <<t, "completed", t - 1, NumTasks>> >>
          /\ \E task_result_value \in execute_task(t) :
                /\ outputs' = DictPut(outputs, t, task_result_value)
                /\ result' = result
       \/ /\ execution_log' = execution_log \cup
                { Log("Executing task", t), Log("Error executing task", t) }
          /\ task_status' = [task_status EXCEPT ![t] = "error"]
          /\ progress_calls' = progress_calls \o
                << <<t, "running", t - 1, NumTasks>>, <<t, "error", t - 1, NumTasks>> >>
          /\ UNCHANGED <<outputs, result>>

\* A pass whose except clause stores the error text as the task's output.
SeqExecuteStoringError(t) ==
    /\ \A d \in dependencies[t] : d \in DOMAIN outputs
    /\ invocations' = Append(invocations, t)
    /\ call_context' = [call_context EXCEPT
                           ![t] = TaskExecuteContext(DependencyContext(t, outputs))]
    /\ \/ /\ execution_log' = execution_log \cup
                { Log("Executing task", t), Log("Task completed", t) }
          /\ task_status' = [task_status EXCEPT ![t] = "completed"]
          /\ progress_calls' = progress_calls \o
                << <<t, "running", t - 1, NumTasks>>,
                   <<t, "completed", t - 1, NumTasks>> >>
          /\ \E task_result_value \in execute_task(t) :
                /\ outputs' = DictPut(outputs, t, task_result_value)
                /\ result' = DictPut(result, t, task_result_value)
       \/ /\ execution_log' = execution_log \cup
                { Log("Executing task", t), Log("Error executing task", t) }
          /\ task_status' = [task_status EXCEPT ![t] = "error"]
          /\ progress_calls' = progress_calls \o
                << <<t, "running", t - 1, NumTasks>>, <<t, "error", t - 1, NumTasks>> >>
          /\ outputs' = DictPut(outputs, t, ErrorString(ExceptionMessage(t)))
          /\ result' = DictPut(result, t, ErrorString(ExceptionMessage(t)))

SeqExecute(t) ==
    /\ \A d \in dependencies[t] : d \in DOMAIN outputs
    /\ invocations' = Append(invocations, t)
    /\ call_context' = [call_context EXCEPT
                           ![t] = TaskExecuteContext(DependencyContext(t, outputs))]
    /\ \/ /\ execution_log' = execution_log \cup
                { Log("Executing task", t), Log("Task completed", t) }
          /\ task_status' = [task_status EXCEPT ![t] = "completed"]
          /\ progress_calls' = progress_calls \o
                << <<t, "running", t - 1, NumTasks>>,
                   <<t, "completed", t - 1, NumTasks>> >>
          /\ \E task_result_value \in execute_task(t) :
                /\ outputs' = DictPut(outputs, t, task_result_value)
                /\ result' = DictPut(result, t, task_result_value)
       \/ /\ execution_log' = execution_log \cup
                { Log("Executing task", t), Log("Error executing task", t) }
          /\ task_status' = [task_status EXCEPT ![t] = "error"]
          /\ progress_calls' = progress_calls \o
                << <<t, "running", t - 1, NumTasks>>, <<t, "error", t - 1, NumTasks>> >>
          /\ UNCHANGED <<outputs, result>>

\* A loop whose except clause ends with break instead of continue.
SeqVisitBreaking ==
    /\ crew_pc = "seq"
    /\ seq_i <= NumTasks
    /\ SeqSkip(seq_i) \/ SeqExecute(seq_i)
    /\ seq_i' = IF task_status'[seq_i] = "error" THEN NumTasks + 1 ELSE seq_i + 1
    /\ UNCHANGED <<mode, dependencies, initial_context, crew_pc, parVars>>
    /\ UNCHANGED <<autoVars, backupVars, regVars>>

SeqVisit ==
    /\ crew_pc = "seq"
    /\ seq_i <= NumTasks
    /\ SeqSkip(seq_i) \/ SeqExecute(seq_i)
    /\ seq_i' = seq_i + 1
    /\ UNCHANGED <<mode, dependencies, initial_context, crew_pc, parVars>>
    /\ UNCHANGED <<autoVars, backupVars, regVars>>

\* run_sequential, lines 163-170.
SeqFinish ==
    /\ crew_pc = "seq"
    /\ seq_i > NumTasks
    /\ crew_pc' = "returned"
    /\ execution_log' = execution_log \cup {Log("Sequential workflow completed", 0)}
    /\ UNCHANGED <<mode, dependencies, initial_context, seq_i, outputs, result,
                   task_status, progress_calls, invocations, call_context, parVars>>
    /\ UNCHANGED <<autoVars, backupVars, regVars>>

SeqNext == SeqStart \/ SeqVisit \/ SeqFinish

\* ------------------------------------------------------- Crew.run_parallel

RECURSIVE SortedSeq(_)
\* The elements of a set of ids in ascending order.
SortedSeq(S) ==
    IF S = {} THEN << >>
    ELSE LET m == CHOOSE x \in S : \A y \in S : x <= y
         IN  <<m>> \o SortedSeq(S \ {m})

\* task.dependencies as the list the worker's for loop walks.
DependencySeq(t) == SortedSeq(dependencies[t])

\* run_parallel, lines 182-250: the coordinator creates the queue, the lock and
\* the shared map, then creates and starts one thread per task.  A thread that
\* is started late behaves as one that is started and not yet scheduled, so
\* the threads are started in one step.
ParStart ==
    /\ mode = "parallel"
    /\ crew_pc = "ready"
    /\ crew_pc' = "par"
    /\ execution_log' = execution_log \cup {Log("Starting parallel workflow", 0)}
    /\ result' = initial_context
    /\ shared_outputs' = EmptyDict
    /\ result_queue' = << >>
    /\ worker_pc' = [t \in Tasks |-> "start"]
    /\ outputs_lock' = Unlocked
    /\ UNCHANGED <<mode, dependencies, initial_context, seq_i, outputs, task_status,
                   progress_calls, invocations, call_context, wait_idx,
                   task_context, task_result, drained>>
    /\ UNCHANGED <<autoVars, backupVars, regVars>>

\* execute_task_thread, lines 197-198.
WorkerStart(t) ==
    /\ worker_pc[t] = "start"
    /\ execution_log' = execution_log \cup {Log("Starting task", t)}
    /\ task_status' = [task_status EXCEPT ![t] = "running"]
    /\ worker_pc' = [worker_pc EXCEPT
                        ![t] = IF dependencies[t] = {} THEN "ctx" ELSE "wait"]
    /\ UNCHANGED <<mode, dependencies, initial_context, crew_pc, seq_i, outputs, result,
                   progress_calls, invocations, call_context, shared_outputs,
                   result_queue, wait_idx, task_context, task_result, drained>>
    /\ UNCHANGED <<outputs_lock, autoVars, backupVars, regVars>>

\* A wait that moves on without finding the dependency in the shared map.
WorkerWaitBlind(t) ==
    /\ worker_pc[t] = "wait"
    /\ outputs_lock = Unlocked
    /\ outputs_lock' = t
    /\ wait_idx' = [wait_idx EXCEPT ![t] = @ + 1]
    /\ worker_pc' = [worker_pc EXCEPT ![t] = "polled"]
    /\ UNCHANGED <<mode, dependencies, initial_context, crew_pc, seq_i, outputs, result,
                   task_status, execution_log, progress_calls, invocations,
                   call_context, shared_outputs, result_queue, task_context,
                   task_result, drained>>
    /\ UNCHANGED <<autoVars, backupVars, regVars>>

\* execute_task_thread, lines 201-206: one successful poll of the shared map
\* for the dependency the worker is waiting for: the thread takes outputs_lock
\* and finds the dependency.  A poll that does not find the dependency takes
\* the lock, releases it, sleeps and changes nothing.
WorkerWait(t) ==
    /\ worker_pc[t] = "wait"
    /\ outputs_lock = Unlocked
    /\ DependencySeq(t)[wait_idx[t]] \in DOMAIN shared_outputs
    /\ outputs_lock' = t
    /\ wait_idx' = [wait_idx EXCEPT ![t] = @ + 1]
    /\ worker_pc' = [worker_pc EXCEPT ![t] = "polled"]
    /\ UNCHANGED <<mode, dependencies, initial_context, crew_pc, seq_i, outputs, result,
                   task_status, execution_log, progress_calls, invocations,
                   call_context, shared_outputs, result_queue, task_context,
                   task_result, drained>>
    /\ UNCHANGED <<autoVars, backupVars, regVars>>

\* execute_task_thread, lines 208-213.
WorkerContext(t) ==
    /\ worker_pc[t] = "ctx"
    /\ outputs_lock = Unlocked
    /\ outputs_lock' = t
    /\ task_context' = [task_context EXCEPT ![t] = DependencyContext(t, shared_outputs)]
    /\ worker_pc' = [worker_pc EXCEPT ![t] = "ctx_held"]
    /\ UNCHANGED <<mode, dependencies, initial_context, crew_pc, seq_i, outputs, result,
                   task_status, execution_log, progress_calls, invocations,
                   call_context, shared_outputs, result_queue, wait_idx,
                   task_result, drained>>
    /\ UNCHANGED <<autoVars, backupVars, regVars>>

\* A worker whose except clause also stores the error text in the shared map.
WorkerExecutePublishing(t) ==
    /\ worker_pc[t] = "exec"
    /\ invocations' = Append(invocations, t)
    /\ call_context' = [call_context EXCEPT ![t] = TaskExecuteContext(task_context[t])]
    /\ \/ /\ \E task_result_value \in execute_task(t) :
                task_result' = [task_result EXCEPT ![t] = task_result_value]
          /\ execution_log' = execution_log \cup {Log("Task completed", t)}
          /\ task_status' = [task_status EXCEPT ![t] = "completed"]
          /\ worker_pc' = [worker_pc EXCEPT ![t] = "store"]
       \/ /\ task_result' = [task_result EXCEPT ![t] = ErrorString(ExceptionMessage(t))]
          /\ execution_log' = execution_log \cup {Log("Error executing task", t)}
          /\ task_status' = [task_status EXCEPT ![t] = "error"]
          /\ worker_pc' = [worker_pc EXCEPT ![t] = "store"]
    /\ UNCHANGED <<mode, dependencies, initial_context, crew_pc, seq_i, outputs, result,
                   progress_calls, shared_outputs, result_queue, wait_idx,
                   task_context, drained>>
    /\ UNCHANGED <<outputs_lock, autoVars, backupVars, regVars>>

\* execute_task_thread, lines 215-222 and 230-232: task.execute returns or raises.
WorkerExecute(t) ==
    /\ worker_pc[t] = "exec"
    /\ invocations' = Append(invocations, t)
    /\ call_context' = [call_context EXCEPT ![t] = TaskExecuteContext(task_context[t])]
    /\ \/ /\ \E task_result_value \in execute_task(t) :
                task_result' = [task_result EXCEPT ![t] = task_result_value]
          /\ execution_log' = execution_log \cup {Log("Task completed", t)}
          /\ task_status' = [task_status EXCEPT ![t] = "completed"]
          /\ worker_pc' = [worker_pc EXCEPT ![t] = "store"]
       \/ /\ task_result' = [task_result EXCEPT ![t] = ErrorString(ExceptionMessage(t))]
          /\ execution_log' = execution_log \cup {Log("Error executing task", t)}
          /\ task_status' = [task_status EXCEPT ![t] = "error"]
          /\ worker_pc' = [worker_pc EXCEPT ![t] = "put"]
    /\ UNCHANGED <<mode, dependencies, initial_context, crew_pc, seq_i, outputs, result,
                   progress_calls, shared_outputs, result_queue, wait_idx,
                   task_context, drained>>
    /\ UNCHANGED <<outputs_lock, autoVars, backupVars, regVars>>

\* A worker that goes on to the queue without storing its result.
WorkerStoreSkipped(t) ==
    /\ worker_pc[t] = "store"
    /\ worker_pc' = [worker_pc EXCEPT ![t] = "put"]
    /\ UNCHANGED <<mode, dependencies, initial_context, crew_pc, seq_i, outputs, result,
                   task_status, execution_log, progress_calls, invocations,
                   call_context, shared_outputs, result_queue, wait_idx,
                   task_context, task_result, drained>>
    /\ UNCHANGED <<outputs_lock, autoVars, backupVars, regVars>>

\* execute_task_thread, lines 224-226.
WorkerStore(t) ==
    /\ worker_pc[t] = "store"
    /\ outputs_lock = Unlocked
    /\ outputs_lock' = t
    /\ shared_outputs' = DictPut(shared_outputs, t, task_result[t])
    /\ worker_pc' = [worker_pc EXCEPT ![t] = "stored"]
    /\ UNCHANGED <<mode, dependencies, initial_context, crew_pc, seq_i, outputs, result,
                   task_status, execution_log, progress_calls, invocations,
                   call_context, result_queue, wait_idx, task_context,
                   task_result, drained>>
    /\ UNCHANGED <<autoVars, backupVars, regVars>>

\* The end of a with outputs_lock block (lines 203-205, 210-213 and 225-226):
\* the thread releases the lock and goes on after the block.
WorkerRelease(t) ==
    /\ worker_pc[t] \in {"polled", "ctx_held", "stored"}
    /\ outputs_lock = t
    /\ outputs_lock' = Unlocked
    /\ worker_pc' = [worker_pc EXCEPT
                        ![t] = CASE worker_pc[t] = "polled" ->
                                      IF wait_idx[t] > Len(DependencySeq(t))
                                      THEN "ctx" ELSE "wait"
                                 [] worker_pc[t] = "ctx_held" -> "exec"
                                 [] worker_pc[t] = "stored" -> "put"]
    /\ UNCHANGED <<mode, dependencies, initial_context, crew_pc, seq_i, outputs, result,
                   task_status, execution_log, progress_calls, invocations,
                   call_context, shared_outputs, result_queue, wait_idx,
                   task_context, task_result, drained>>
    /\ UNCHANGED <<autoVars, backupVars, regVars>>

\* A worker that puts its item into the completion queue twice.
WorkerPutTwice(t) ==
    /\ worker_pc[t] = "put"
    /\ result_queue' = Append(Append(result_queue, <<t, task_result[t]>>),
                              <<t, task_result[t]>>)
    /\ worker_pc' = [worker_pc EXCEPT ![t] = "done"]
    /\ UNCHANGED <<mode, dependencies, initial_context, crew_pc, seq_i, outputs, result,
                   task_status, execution_log, progress_calls, invocations,
                   call_context, shared_outputs, wait_idx, task_context,
                   task_result, drained>>
    /\ UNCHANGED <<outputs_lock, autoVars, backupVars, regVars>>

\* execute_task_thread, line 229 (after a result) and line 234 (after an
\* exception); the thread then ends.
WorkerPut(t) ==
    /\ worker_pc[t] = "put"
    /\ result_queue' = Append(result_queue, <<t, task_result[t]>>)
    /\ worker_pc' = [worker_pc EXCEPT ![t] = "done"]
    /\ UNCHANGED <<mode, dependencies, initial_context, crew_pc, seq_i, outputs, result,
                   task_status, execution_log, progress_calls, invocations,
                   call_context, shared_outputs, wait_idx, task_context,
                   task_result, drained>>
    /\ UNCHANGED <<outputs_lock, autoVars, backupVars, regVars>>

\* A get that reads the head of the completion queue without removing it.
CoordGetPeek ==
    /\ crew_pc = "par"
    /\ drained < NumTasks
    /\ result_queue # << >>
    /\ LET item == Head(result_queue)
       IN  /\ outputs' = DictPut(outputs, item[1], item[2])
           /\ result' = DictPut(result, item[1], item[2])
    /\ result_queue' = result_queue
    /\ drained' = drained + 1
    /\ UNCHANGED <<mode, dependencies, initial_context, crew_pc, seq_i, task_status,
                   execution_log, progress_calls, invocations, call_context,
                   shared_outputs, worker_pc, wait_idx, task_context, task_result>>
    /\ UNCHANGED <<outputs_lock, autoVars, backupVars, regVars>>

\* run_parallel, lines 253-256: one blocking get of the completion queue.
CoordGet ==
    /\ crew_pc = "par"
    /\ drained < NumTasks
    /\ result_queue # << >>
    /\ LET item == Head(result_queue)
       IN  /\ outputs' = DictPut(outputs, item[1], item[2])
           /\ result' = DictPut(result, item[1], item[2])
    /\ result_queue' = Tail(result_queue)
    /\ drained' = drained + 1
    /\ UNCHANGED <<mode, dependencies, initial_context, crew_pc, seq_i, task_status,
                   execution_log, progress_calls, invocations, call_context,
                   shared_outputs, worker_pc, wait_idx, task_context, task_result>>
    /\ UNCHANGED <<outputs_lock, autoVars, backupVars, regVars>>

\* run_parallel, lines 258-269: join every thread, log, save and return.
CoordJoin ==
    /\ crew_pc = "par"
    /\ drained = NumTasks
    /\ \A t \in Tasks : worker_pc[t] = "done"
    /\ crew_pc' = "returned"
    /\ execution_log' = execution_log \cup {Log("Parallel workflow completed", 0)}
    /\ UNCHANGED <<mode, dependencies, initial_context, seq_i, outputs, result,
                   task_status, progress_calls, invocations, call_context, parVars>>
    /\ UNCHANGED <<autoVars, backupVars, regVars>>

Worker(t) ==
    \/ WorkerStart(t)
    \/ WorkerWait(t)
    \/ WorkerContext(t)
    \/ WorkerExecute(t)
    \/ WorkerStore(t)
    \/ WorkerRelease(t)
    \/ WorkerPut(t)

ParNext == ParStart \/ CoordGet \/ CoordJoin \/ (\E t \in Tasks : Worker(t))

\* ------------------------------------------- ProjectEvolutionCrew (backup)

\* tasks_sequence / tasks_to_run of src/backup/crew.py: analyze_feedback,
\* generate_feature_proposals, evaluate_feasibility, create_sprint_plan and
\* generate_stakeholder_update, as the ids 1..5.
NumBackupTasks == 5

BackupTasks == 1..NumBackupTasks

\* The key 'feedback_data' of result.
FeedbackData == NumBackupTasks + 1

\* task_dependencies, lines 338-344: every task but the first depends on the
\* task before it.
task_dependencies(t) == IF t = 1 THEN {} ELSE {t - 1}

\* DirectAnthropicExecutor.execute_task, crewai_fix.py lines 60-91: the response
\* text, or the error message it returns when the API call raised.
ExecutorReturns(t) == {TaskOutput(t), <<"Error executing task with Anthropic API", t>>}

\* ProjectEvolutionCrew.__init__ in mode 'sequential' or 'parallel'.
BackupInit ==
    /\ backup_api_key \in BOOLEAN
    /\ backup_mode \in {"sequential", "parallel"}
    /\ backup_pc = "ready"
    /\ backup_i = 1
    /\ backup_result = EmptyDict
    /\ backup_result_queue = << >>
    /\ backup_thread_pc = [t \in BackupTasks |-> "idle"]
    /\ backup_context = [t \in BackupTasks |-> EmptyDict]
    /\ backup_task_result = [t \in BackupTasks |-> << >>]
    /\ backup_drained = 0
    /\ backup_invocations = << >>

\* No run of the backup crew is in progress.
BackupIdle ==
    /\ backup_api_key = TRUE
    /\ backup_mode = "sequential"
    /\ backup_pc = "idle"
    /\ backup_i = 1
    /\ backup_result = EmptyDict
    /\ backup_result_queue = << >>
    /\ backup_thread_pc = [t \in BackupTasks |-> "idle"]
    /\ backup_context = [t \in BackupTasks |-> EmptyDict]
    /\ backup_task_result = [t \in BackupTasks |-> << >>]
    /\ backup_drained = 0
    /\ backup_invocations = << >>

\* backup run_sequential, lines 243-259.
BackupSeqStart ==
    /\ backup_mode = "sequential"
    /\ backup_pc = "ready"
    /\ backup_pc' = "seq"
    /\ backup_result' = (FeedbackData :> <<"feedback_file">>)
    /\ backup_i' = 1
    /\ UNCHANGED <<backup_api_key, backup_mode, backup_result_queue, backup_thread_pc, backup_context,
                   backup_task_result, backup_drained, backup_invocations>>
    /\ UNCHANGED <<crewVars, autoVars, regVars>>

\* One pass of the loop of backup run_sequential, lines 261-294: every entry
\* of result becomes a context item; the executor returns, or raises (no API
\* key, crewai_fix.py line 25) and the exception leaves run_sequential.
BackupSeqExecute ==
    /\ backup_pc = "seq"
    /\ backup_i <= NumBackupTasks
    /\ backup_context' = [backup_context EXCEPT ![backup_i] = backup_result]
    /\ backup_invocations' = Append(backup_invocations, backup_i)
    /\ \/ \E r \in ExecutorReturns(backup_i) :
             /\ backup_api_key
             /\ backup_result' = DictPut(backup_result, backup_i, r)
             /\ backup_i' = backup_i + 1
             /\ UNCHANGED backup_pc
       \/ /\ ~backup_api_key
          /\ backup_pc' = "raised"
          /\ UNCHANGED <<backup_result, backup_i>>
    /\ UNCHANGED <<backup_api_key, backup_mode, backup_result_queue, backup_thread_pc,
                   backup_task_result, backup_drained>>
    /\ UNCHANGED <<crewVars, autoVars, regVars>>

\* backup run_sequential, lines 296-303.
BackupSeqFinish ==
    /\ backup_pc = "seq"
    /\ backup_i > NumBackupTasks
    /\ backup_pc' = "returned"
    /\ UNCHANGED <<backup_api_key, backup_mode, backup_i, backup_result, backup_result_queue,
                   backup_thread_pc, backup_context, backup_task_result,
                   backup_drained, backup_invocations>>
    /\ UNCHANGED <<crewVars, autoVars, regVars>>

\* The thread that holds a lock guarding the local result of the backup's
\* run_parallel: lines 305-418 create no lock and no thread takes one.
backup_lock_holder == Unlocked

\* backup run_parallel, lines 319-400: one thread per task is created and started.
BackupParStart ==
    /\ backup_mode = "parallel"
    /\ backup_pc = "ready"
    /\ backup_pc' = "par"
    /\ backup_result' = (FeedbackData :> <<"feedback_file">>)
    /\ backup_result_queue' = << >>
    /\ backup_thread_pc' = [t \in BackupTasks |-> "wait"]
    /\ UNCHANGED <<backup_api_key, backup_mode, backup_i, backup_context, backup_task_result,
                   backup_drained, backup_invocations>>
    /\ UNCHANGED <<crewVars, autoVars, regVars>>

\* backup execute_task_thread, lines 348-353: the polls of result have found
\* every dependency (a task has at most one).
BackupThreadWait(t) ==
    /\ backup_thread_pc[t] = "wait"
    /\ task_dependencies(t) \subseteq DOMAIN backup_result
    /\ backup_thread_pc' = [backup_thread_pc EXCEPT ![t] = "ctx"]
    /\ UNCHANGED <<backup_api_key, backup_mode, backup_pc, backup_i, backup_result,
                   backup_result_queue, backup_context, backup_task_result,
                   backup_drained, backup_invocations>>
    /\ UNCHANGED <<crewVars, autoVars, regVars>>

\* backup execute_task_thread, lines 355-374: the entries of result whose key
\* is a dependency become context items.
BackupThreadContext(t) ==
    /\ backup_thread_pc[t] = "ctx"
    /\ backup_context' =
          [backup_context EXCEPT
              ![t] = [d \in task_dependencies(t) \cap DOMAIN backup_result
                        |-> backup_result[d]]]
    /\ backup_thread_pc' = [backup_thread_pc EXCEPT ![t] = "exec"]
    /\ UNCHANGED <<backup_api_key, backup_mode, backup_pc, backup_i, backup_result,
                   backup_result_queue, backup_task_result, backup_drained,
                   backup_invocations>>
    /\ UNCHANGED <<crewVars, autoVars, regVars>>

\* backup execute_task_thread, lines 376-381: the executor returns, or raises
\* (no API key, crewai_fix.py line 25) and the thread dies without a queue item.
BackupThreadExecute(t) ==
    /\ backup_thread_pc[t] = "exec"
    /\ backup_invocations' = Append(backup_invocations, t)
    /\ \/ \E r \in ExecutorReturns(t) :
             /\ backup_api_key
             /\ backup_task_result' = [backup_task_result EXCEPT ![t] = r]
             /\ backup_thread_pc' = [backup_thread_pc EXCEPT ![t] = "put"]
       \/ /\ ~backup_api_key
          /\ backup_thread_pc' = [backup_thread_pc EXCEPT ![t] = "dead"]
          /\ UNCHANGED backup_task_result
    /\ UNCHANGED <<backup_api_key, backup_mode, backup_pc, backup_i, backup_result,
                   backup_result_queue, backup_context, backup_drained>>
    /\ UNCHANGED <<crewVars, autoVars, regVars>>

\* backup execute_task_thread, line 384.
BackupThreadPut(t) ==
    /\ backup_thread_pc[t] = "put"
    /\ backup_result_queue' = Append(backup_result_queue, <<t, backup_task_result[t]>>)
    /\ backup_thread_pc' = [backup_thread_pc EXCEPT ![t] = "done"]
    /\ UNCHANGED <<backup_api_key, backup_mode, backup_pc, backup_i, backup_result, backup_context,
                   backup_task_result, backup_drained, backup_invocations>>
    /\ UNCHANGED <<crewVars, autoVars, regVars>>

\* backup run_parallel, lines 403-405: one blocking get of the queue.
BackupCoordGet ==
    /\ backup_pc = "par"
    /\ backup_drained < NumBackupTasks
    /\ backup_result_queue # << >>
    /\ LET item == Head(backup_result_queue)
       IN  backup_result' = DictPut(backup_result, item[1], item[2])
    /\ backup_result_queue' = Tail(backup_result_queue)
    /\ backup_drained' = backup_drained + 1
    /\ UNCHANGED <<backup_api_key, backup_mode, backup_pc, backup_i, backup_thread_pc, backup_context,
                   backup_task_result, backup_invocations>>
    /\ UNCHANGED <<crewVars, autoVars, regVars>>

\* backup run_parallel, lines 407-418: join every thread (one that died has
\* ended too), save and return.
BackupCoordJoin ==
    /\ backup_pc = "par"
    /\ backup_drained = NumBackupTasks
    /\ \A t \in BackupTasks : backup_thread_pc[t] \in {"done", "dead"}
    /\ backup_pc' = "returned"
    /\ UNCHANGED <<backup_api_key, backup_mode, backup_i, backup_result, backup_result_queue,
                   backup_thread_pc, backup_context, backup_task_result,
                   backup_drained, backup_invocations>>
    /\ UNCHANGED <<crewVars, autoVars, regVars>>

BackupThread(t) ==
    \/ BackupThreadWait(t)
    \/ BackupThreadContext(t)
    \/ BackupThreadExecute(t)
    \/ BackupThreadPut(t)

BackupNext ==
    \/ BackupSeqStart
    \/ BackupSeqExecute
    \/ BackupSeqFinish
    \/ BackupParStart
    \/ BackupCoordGet
    \/ BackupCoordJoin
    \/ \E t \in BackupTasks : BackupThread(t)


\* ------------------------------------------------------------ run_autonomous
\*
\* The two loops are checked against every result the assessment tools
\* (TechnicalTools.complexity_analysis, effort_estimation) and the planning
\* tool (PlanningTools.sprint_organization) can hand back to them: the average
\* score and the utilization are inputs of each step.

\* Average feasibility scores a (re-)assessment reports: one below the
\* threshold of 50 and the threshold itself.
Scores == {45, 50}

\* Capacity utilizations a sprint plan reports: within and over capacity.
Utilizations == {90, 120}

\* PlanningTools.sprint_organization, lines 146-159: the utilization is the sum
\* of the story points of the features the plan selects from the list, over
\* the capacity, so a plan over no features has utilization 0.  Which features
\* of a list the plan selects is left open here: the test of line 154, which
\* keeps a plan within capacity, would keep the capacity loop from ever running.
PlanUtilizations(fs) == IF fs = << >> THEN {0} ELSE Utilizations

\* The thresholds of the two while conditions.
FeasibilityThreshold == 50

UtilizationThreshold == 100

\* PlanningTools.capacity_planning() with its defaults: 5 * 10 * 0.8 = 40 points,
\* kept in tenths of a point so that * 1.1 stays an integer.
InitialCapacity == 400

Priorities == {"High", "Low"}

FeaturePool == [feature_id : 1..MaxFeatures, priority : Priorities,
                feasibility_score : {58, 93}]

\* The candidate lists: the i-th feature has id i, or the id of the first one
\* (a list whose ids are not distinct).
FeatureLists ==
    UNION { {fs \in [1..n -> FeaturePool] : \A i \in 1..n : fs[i].feature_id \in {1, i}}
            : n \in 0..MaxFeatures }

\* {"Critical": 0, "High": 1, "Medium": 2, "Low": 3}.get(priority, 4)
PriorityRank(priority) ==
    CASE priority = "Critical" -> 0
      [] priority = "High" -> 1
      [] priority = "Medium" -> 2
      [] priority = "Low" -> 3
      [] OTHER -> 4

\* The sort key (rank, -feasibility_score), compared as Python compares tuples.
KeyLess(f, g) ==
    \/ PriorityRank(f.priority) < PriorityRank(g.priority)
    \/ /\ PriorityRank(f.priority) = PriorityRank(g.priority)
       /\ -f.feasibility_score < -g.feasibility_score

\* sorted(refined_features, key=..., reverse=True).pop(): the sort is stable, also
\* reversed, so the last element is the last feature of the list among those
\* with the least key.
RemovedFeature(fs) ==
    LET least == {i \in 1..Len(fs) : \A j \in 1..Len(fs) : ~KeyLess(fs[j], fs[i])}
        last == CHOOSE i \in least : \A j \in least : j <= i
    IN  fs[last]

\* [f for f in refined_features if f['feature_id'] != removed['feature_id']]
WithoutFeature(fs, removed) ==
    LET keep(f) == f.feature_id # removed.feature_id
    IN  SelectSeq(fs, keep)

\* capacity['adjusted_capacity'] *= 1.1
IncreaseCapacity(c) == (c * 11) \div 10

\* The state when the first feasibility assessment has been made (src/crew.py
\* line 334, src/backup/crew.py line 577).  src/crew.py gets here only when the
\* name FeatureTools of its line 312 resolves: the module does not import it.
\* The backup catches that failure (lines 536-539) and goes on.
AutoInit ==
    /\ impl \in {"main", "backup"}
    /\ auto_pc = "feasibility"
    /\ max_iterations \in 0..MaxIterationsBound
    /\ average_feasibility_score \in Scores
    /\ iteration_count = 0
    /\ total_iterations = 0
    /\ iteration_triggers = << >>
    /\ feature_iterations = << >>
    /\ sprint_iterations = << >>
    /\ adjusted_capacity = 0
    /\ original_capacity = 0
    /\ refined_features = << >>
    /\ feature_proposals = << >>
    /\ capacity_utilization = 0

\* The loop condition without its score test: a loop that only counts.
FeasibilityLoopConditionCountOnly == iteration_count < max_iterations

\* The loop condition with an off-by-one iteration cap.
FeasibilityLoopConditionOffByOne ==
    /\ average_feasibility_score < FeasibilityThreshold
    /\ iteration_count <= max_iterations

\* The while condition of the feasibility loop, src/crew.py lines 347-348.
FeasibilityLoopCondition ==
    /\ average_feasibility_score < FeasibilityThreshold
    /\ iteration_count < max_iterations

\* The while condition of the capacity loop, src/crew.py lines 418-419.
CapacityLoopCondition ==
    /\ capacity_utilization > UtilizationThreshold
    /\ iteration_count < max_iterations

FeatureEntry(n, before) ==
    [iteration |-> n, trigger |-> "low_feasibility", before_score |-> before]

\* The entry with the keys after_score and improvement added.
FeatureEntryDone(e, after) ==
    [iteration |-> e.iteration, trigger |-> e.trigger, before_score |-> e.before_score,
     after_score |-> after, improvement |-> after - e.before_score]

\* One body of the feasibility loop of src/crew.py, lines 347-402.  The
\* re-assessment returns a score, or raises and ends run_autonomous.
FeasibilityIteration ==
    /\ impl = "main"
    /\ auto_pc = "feasibility"
    /\ FeasibilityLoopCondition
    /\ LET entry == FeatureEntry(iteration_count + 1, average_feasibility_score)
       IN  \/ \E score \in Scores :
                /\ average_feasibility_score' = score
                /\ iteration_count' = iteration_count + 1
                /\ total_iterations' = total_iterations + 1
                /\ iteration_triggers' = Append(iteration_triggers, "low_feasibility")
                /\ feature_iterations' =
                       Append(feature_iterations, FeatureEntryDone(entry, score))
                /\ UNCHANGED auto_pc
           \/ /\ feature_iterations' = Append(feature_iterations, entry)
              /\ auto_pc' = "raised"
              /\ UNCHANGED <<average_feasibility_score, iteration_count,
                             total_iterations, iteration_triggers>>
    /\ UNCHANGED <<feature_proposals, impl, max_iterations, sprint_iterations, adjusted_capacity,
                   original_capacity, refined_features, capacity_utilization>>
    /\ UNCHANGED <<crewVars, backupVars, regVars>>

\* A body of the backup's loop without the try of lines 595-635: the exception
\* leaves run_autonomous.
BackupFeasibilityIterationUncaught ==
    /\ impl = "backup"
    /\ auto_pc = "feasibility"
    /\ FeasibilityLoopCondition
    /\ Len(feature_iterations) < MaxLoopBodies
    /\ LET entry == FeatureEntry(iteration_count + 1, average_feasibility_score)
       IN  \/ \E score \in Scores :
                /\ average_feasibility_score' = score
                /\ total_iterations' = total_iterations + 1
                /\ iteration_triggers' = Append(iteration_triggers, "low_feasibility")
                /\ feature_iterations' =
                       Append(feature_iterations,
                              IF iteration_count > 0
                              THEN FeatureEntryDone(entry, score) ELSE entry)
                /\ UNCHANGED auto_pc
           \/ /\ feature_iterations' = Append(feature_iterations, entry)
              /\ auto_pc' = "raised"
              /\ UNCHANGED <<average_feasibility_score, total_iterations,
                             iteration_triggers>>
    /\ UNCHANGED <<feature_proposals, impl, max_iterations, iteration_count, sprint_iterations,
                   adjusted_capacity, original_capacity, refined_features,
                   capacity_utilization>>
    /\ UNCHANGED <<crewVars, backupVars, regVars>>

\* One body of the feasibility loop of src/backup/crew.py, lines 579-653.  The
\* body does not change iteration_count; an exception of the regeneration or
\* of the re-assessment breaks the loop.
BackupFeasibilityIteration ==
    /\ impl = "backup"
    /\ auto_pc = "feasibility"
    /\ FeasibilityLoopCondition
    /\ Len(feature_iterations) < MaxLoopBodies
    /\ LET entry == FeatureEntry(iteration_count + 1, average_feasibility_score)
       IN  \/ \E score \in Scores :
                /\ average_feasibility_score' = score
                /\ total_iterations' = total_iterations + 1
                /\ iteration_triggers' = Append(iteration_triggers, "low_feasibility")
                /\ feature_iterations' =
                       Append(feature_iterations,
                              IF iteration_count > 0
                              THEN FeatureEntryDone(entry, score) ELSE entry)
                /\ UNCHANGED auto_pc
           \/ /\ feature_iterations' = Append(feature_iterations, entry)
              /\ auto_pc' = "broken"
              /\ UNCHANGED <<average_feasibility_score, total_iterations,
                             iteration_triggers>>
    /\ UNCHANGED <<feature_proposals, impl, max_iterations, iteration_count, sprint_iterations,
                   adjusted_capacity, original_capacity, refined_features,
                   capacity_utilization>>
    /\ UNCHANGED <<crewVars, backupVars, regVars>>

\* The feasibility loop is left (its condition is false, or the backup's body
\* broke out of it) and the first sprint plan is made: src/crew.py lines 404-416,
\* src/backup/crew.py lines 655-667.
SprintPlanning ==
    /\ \/ /\ auto_pc = "feasibility"
          /\ ~FeasibilityLoopCondition
       \/ auto_pc = "broken"
    /\ auto_pc' = "capacity"
    /\ adjusted_capacity' = InitialCapacity
    /\ original_capacity' = InitialCapacity
    /\ refined_features' \in FeatureLists
    /\ capacity_utilization' \in PlanUtilizations(refined_features')
    /\ iteration_count' = 0
    /\ UNCHANGED <<feature_proposals, impl, max_iterations, average_feasibility_score, total_iterations,
                   iteration_triggers, feature_iterations, sprint_iterations>>
    /\ UNCHANGED <<crewVars, backupVars, regVars>>

SprintEntry(n, before, capacity) ==
    [iteration |-> n, trigger |-> "capacity_exceeded", before_utilization |-> before,
     capacity |-> capacity]

SprintEntryDone(e, after) ==
    [iteration |-> e.iteration, trigger |-> e.trigger,
     before_utilization |-> e.before_utilization, capacity |-> e.capacity,
     after_utilization |-> after, improvement |-> e.before_utilization - after]

\* The candidates after the strategy of lines 434-454 for this iteration.
AdjustedFeatures(count, fs) ==
    IF count = 0 \/ fs = << >> THEN fs ELSE WithoutFeature(fs, RemovedFeature(fs))

\* A capacity that is increased in every iteration.
AdjustedCapacityEvery(count, c) == IncreaseCapacity(c)

\* The capacity after the strategy of lines 434-454 for this iteration.
AdjustedCapacity(count, c) ==
    IF count = 0 THEN IncreaseCapacity(c) ELSE c

\* A body of the capacity loop that appends its trigger without counting the
\* iteration.
CapacityIterationUncounted ==
    /\ auto_pc = "capacity"
    /\ CapacityLoopCondition
    /\ adjusted_capacity' = AdjustedCapacity(iteration_count, adjusted_capacity)
    /\ refined_features' = AdjustedFeatures(iteration_count, refined_features)
    /\ \E utilization \in PlanUtilizations(refined_features') :
          /\ capacity_utilization' = utilization
          /\ sprint_iterations' =
                Append(sprint_iterations,
                       SprintEntryDone(SprintEntry(iteration_count + 1,
                                                   capacity_utilization,
                                                   adjusted_capacity),
                                       utilization))
    /\ iteration_count' = iteration_count + 1
    /\ total_iterations' = total_iterations
    /\ iteration_triggers' = Append(iteration_triggers, "capacity_exceeded")
    /\ UNCHANGED <<feature_proposals, impl, auto_pc, max_iterations, average_feasibility_score,
                   feature_iterations, original_capacity>>
    /\ UNCHANGED <<crewVars, backupVars, regVars>>

\* One body of the capacity loop, src/crew.py lines 418-471 (the same code at
\* src/backup/crew.py lines 669-722).
CapacityIteration ==
    /\ auto_pc = "capacity"
    /\ CapacityLoopCondition
    /\ adjusted_capacity' = AdjustedCapacity(iteration_count, adjusted_capacity)
    /\ refined_features' = AdjustedFeatures(iteration_count, refined_features)
    /\ \E utilization \in PlanUtilizations(refined_features') :
          /\ capacity_utilization' = utilization
          /\ sprint_iterations' =
                Append(sprint_iterations,
                       SprintEntryDone(SprintEntry(iteration_count + 1,
                                                   capacity_utilization,
                                                   adjusted_capacity),
                                       utilization))
    /\ iteration_count' = iteration_count + 1
    /\ total_iterations' = total_iterations + 1
    /\ iteration_triggers' = Append(iteration_triggers, "capacity_exceeded")
    /\ UNCHANGED <<feature_proposals, impl, auto_pc, max_iterations, average_feasibility_score,
                   feature_iterations, original_capacity>>
    /\ UNCHANGED <<crewVars, backupVars, regVars>>

\* The capacity loop is left and iteration_metrics is saved, src/crew.py
\* lines 473-474.
SaveMetrics ==
    /\ auto_pc = "capacity"
    /\ ~CapacityLoopCondition
    /\ auto_pc' = "saved"
    /\ UNCHANGED <<feature_proposals, impl, max_iterations, average_feasibility_score, iteration_count,
                   total_iterations, iteration_triggers, feature_iterations,
                   sprint_iterations, adjusted_capacity, original_capacity,
                   refined_features, capacity_utilization>>
    /\ UNCHANGED <<crewVars, backupVars, regVars>>

AutoNext ==
    \/ FeasibilityIteration
    \/ BackupFeasibilityIteration
    \/ SprintPlanning
    \/ CapacityIteration
    \/ SaveMetrics

\* No run_autonomous is in progress.
AutoIdle ==
    /\ impl = "main"
    /\ auto_pc = "idle"
    /\ max_iterations = 0
    /\ average_feasibility_score = 0
    /\ iteration_count = 0
    /\ total_iterations = 0
    /\ iteration_triggers = << >>
    /\ feature_iterations = << >>
    /\ sprint_iterations = << >>
    /\ adjusted_capacity = 0
    /\ original_capacity = 0
    /\ refined_features = << >>
    /\ feature_proposals = << >>
    /\ capacity_utilization = 0

\* No Crew run is in progress.
CrewIdle ==
    /\ mode = "sequential"
    /\ dependencies = [t \in Tasks |-> {}]
    /\ initial_context = EmptyDict
    /\ crew_pc = "idle"
    /\ seq_i = 1
    /\ outputs = EmptyDict
    /\ result = EmptyDict
    /\ task_status = [t \in Tasks |-> "none"]
    /\ execution_log = {}
    /\ progress_calls = << >>
    /\ invocations = << >>
    /\ call_context = [t \in Tasks |-> EmptyDict]
    /\ shared_outputs = EmptyDict
    /\ result_queue = << >>
    /\ worker_pc = [t \in Tasks |-> "idle"]
    /\ wait_idx = [t \in Tasks |-> 1]
    /\ task_context = [t \in Tasks |-> EmptyDict]
    /\ task_result = [t \in Tasks |-> << >>]
    /\ outputs_lock = Unlocked
    /\ drained = 0

\* ------------------------------------------------------------ Crew registry

\* The Task objects a caller may pass to add_task.
NumTaskObjects == 3
TaskObjects == 1..NumTaskObjects

\* The number of add_task calls that are followed.
MaxAddTaskCalls == 3

\* A Python value that a context can be: None, a list, a mapping or a string,
\* as its kind and its items in order (the elements of a list under the key
\* "", the items of a mapping under their keys, the pieces of a string).
None == [kind |-> "none", items |-> << >>]

\* No Task has been constructed.
NoTask == [description |-> "", context |-> None, dependencies |-> << >>]

\* Crew.__init__, src/direct_agents/crew.py line 40: self.tasks = {}.
RegInit ==
    /\ tasks = << >>
    /\ add_task_calls = << >>
    /\ agent_init = "none"
    /\ task_self = NoTask
    /\ execute_calls = << >>

RegIdle == RegInit

\* The keys of a dict kept as a sequence of entries.
Keys(d) == {d[i].task_id : i \in 1..Len(d)}

\* d[k] = v of a Python dict: the entry of an existing key is replaced where it
\* stands, a new key is added at the end.
SetItem(d, k, v) ==
    IF k \in Keys(d)
    THEN [i \in 1..Len(d) |-> IF d[i].task_id = k THEN [task_id |-> k, task |-> v]
                                                   ELSE d[i]]
    ELSE Append(d, [task_id |-> k, task |-> v])

\* A registry kept as a list of registrations: every call adds an entry.
AddTaskAppending(task_id, task) ==
    /\ Len(add_task_calls) < MaxAddTaskCalls
    /\ tasks' = Append(tasks, [task_id |-> task_id, task |-> task])
    /\ add_task_calls' = Append(add_task_calls, [task_id |-> task_id, task |-> task])
    /\ UNCHANGED <<agent_init, task_self, execute_calls, crewVars, autoVars, backupVars>>

\* A registry that moves a re-registered id to the end: the entry of the id is
\* deleted and the new one added last.
AddTaskMovingToEnd(task_id, task) ==
    /\ Len(add_task_calls) < MaxAddTaskCalls
    /\ tasks' = Append(SelectSeq(tasks, LAMBDA e : e.task_id # task_id),
                       [task_id |-> task_id, task |-> task])
    /\ add_task_calls' = Append(add_task_calls, [task_id |-> task_id, task |-> task])
    /\ UNCHANGED <<agent_init, task_self, execute_calls, crewVars, autoVars, backupVars>>

\* Crew.add_task, src/direct_agents/crew.py lines 63-72.
add_task(task_id, task) ==
    /\ Len(add_task_calls) < MaxAddTaskCalls
    /\ tasks' = SetItem(tasks, task_id, task)
    /\ add_task_calls' = Append(add_task_calls, [task_id |-> task_id, task |-> task])
    /\ UNCHANGED <<agent_init, task_self, execute_calls, crewVars, autoVars, backupVars>>

\* Agent.__init__, src/direct_agents/agent.py lines 56-62: the key is the
\* argument or the environment variable; without either the constructor raises
\* ValueError and there is no Agent whose execute_task could be called.
Agent_init(anthropic_api_key, env_api_key) ==
    /\ agent_init = "none"
    /\ agent_init' = IF anthropic_api_key \/ env_api_key THEN "constructed" ELSE "raised"
    /\ UNCHANGED <<tasks, add_task_calls, task_self, execute_calls, crewVars, autoVars,
                   backupVars>>

\* task_items = list(self.tasks.items()), src/direct_agents/crew.py line 119:
\* the (task_id, task) pairs that the loop of run_sequential visits, in order.
task_items == [i \in 1..Len(tasks) |-> <<tasks[i].task_id, tasks[i].task>>]

RegNext ==
    \/ \E task_id \in Tasks, task \in TaskObjects : add_task(task_id, task)
    \/ \E anthropic_api_key \in BOOLEAN, env_api_key \in BOOLEAN :
          Agent_init(anthropic_api_key, env_api_key)

InitReg == RegInit /\ CrewIdle /\ AutoIdle /\ BackupIdle

SpecReg == InitReg /\ [][RegNext]_vars

\* A run that falls back to the sequential strategy for a mode it does not know.
RunUnsupportedFallback ==
    /\ mode \notin {"sequential", "parallel"}
    /\ crew_pc = "ready"
    /\ crew_pc' = "seq"
    /\ execution_log' = execution_log \cup {Log("Starting sequential workflow", 0)}
    /\ result' = initial_context
    /\ UNCHANGED <<mode, dependencies, initial_context, seq_i, outputs,
                   task_status, progress_calls, invocations,
                   call_context, parVars>>
    /\ UNCHANGED <<autoVars, backupVars, regVars>>

\* Crew.run, lines 281-286: any mode but 'sequential' and 'parallel' raises.
RunUnsupported ==
    /\ mode \notin {"sequential", "parallel"}
    /\ crew_pc = "ready"
    /\ crew_pc' = "raised"
    /\ UNCHANGED <<mode, dependencies, initial_context, seq_i, outputs, result,
                   task_status, execution_log, progress_calls, invocations,
                   call_context, parVars>>
    /\ UNCHANGED <<autoVars, backupVars, regVars>>

Next == RunUnsupported \/ SeqNext \/ ParNext \/ BackupNext

\* One run of a fresh Crew of src/direct_agents, or of a fresh backup crew, in
\* the mode it was constructed with.
Init ==
    \/ CrewInit /\ BackupIdle /\ AutoIdle /\ RegIdle
    \/ BackupInit /\ CrewIdle /\ AutoIdle /\ RegIdle

Spec == Init /\ [][Next]_vars

\* The scheduler runs every thread that can take a step: weak fairness of the
\* caller's thread (the coordinator of run_parallel) and of each worker.
FairSpec ==
    /\ Spec
    /\ WF_vars(RunUnsupported \/ SeqNext \/ ParStart \/ CoordGet \/ CoordJoin)
    /\ \A t \in Tasks : WF_vars(Worker(t))

\* One run of run_autonomous, from its first feasibility assessment on.
InitAuto == AutoInit /\ CrewIdle /\ BackupIdle /\ RegIdle

SpecAuto == InitAuto /\ [][AutoNext]_vars

\* run_autonomous runs in one thread, which is not stopped between two steps.
FairSpecAuto == SpecAuto /\ WF_vars(AutoNext)

\* ------------------------------------------------------------------ claims

Invoked == {invocations[i] : i \in 1..Len(invocations)}

BackupInvoked == {backup_invocations[i] : i \in 1..Len(backup_invocations)}

\* C1: in run_parallel, of src/direct_agents/crew.py and of src/backup/crew.py,
\* a worker never invokes its task's capability before every declared
\* dependency of the task is a key of the output map the workers poll.
C1_DependencyGating ==
    /\ mode = "parallel" =>
           \A t \in Invoked : dependencies[t] \subseteq DOMAIN shared_outputs
    /\ backup_mode = "parallel" =>
           \A t \in BackupInvoked : task_dependencies(t) \subseteq DOMAIN backup_result

\* A task with a declared dependency has invoked its capability in a parallel
\* run of the Crew of src/direct_agents.
C1_Witness ==
    /\ mode = "parallel"
    /\ \E t \in Invoked : dependencies[t] # {}

\* C2: when the capability of exactly one task B raised, the run (sequential or
\* parallel) returns a result with an entry for every other task and a
\* non-empty entry for B.
C2_FailureIsolation ==
    \A b \in Tasks :
        (/\ crew_pc = "returned"
         /\ {t \in Tasks : task_status[t] = "error"} = {b})
        => /\ \A t \in Tasks \ {b} : t \in DOMAIN result
           /\ b \in DOMAIN result
           /\ result[b] # << >>

\* C3: in run_parallel a worker whose task execution raised has placed the
\* formatted error string under its id in the shared output map (and in the
\* completion queue) by the time it ends.
C3_ErrorPublished ==
    \A t \in Tasks :
        (mode = "parallel" /\ task_status[t] = "error" /\ worker_pc[t] = "done")
        => /\ t \in DOMAIN shared_outputs
           /\ shared_outputs[t] = ErrorString(ExceptionMessage(t))

AllRegistered == \A t \in Tasks : dependencies[t] \subseteq Tasks

Acyclic ==
    \E rank \in [Tasks -> 1..NumTasks] :
        \A t \in Tasks : \A d \in dependencies[t] \cap Tasks : rank[d] < rank[t]

ParallelReturned ==
    /\ drained = NumTasks
    /\ result_queue = << >>
    /\ \A t \in Tasks : worker_pc[t] = "done"
    /\ Tasks \subseteq DOMAIN result
    /\ DOMAIN outputs = Tasks

\* C4: with an acyclic dependency graph over registered ids, and unless a
\* capability call raises, run_parallel eventually returns under fair
\* scheduling; when it returns, len(tasks) items were taken from the queue,
\* one per task, every worker has ended and the result has every task.
C4_ParallelTerminates ==
    (mode = "parallel" /\ AllRegistered /\ Acyclic)
    => /\ <>(crew_pc = "returned" \/ \E t \in Tasks : task_status[t] = "error")
       /\ [](crew_pc = "returned" => ParallelReturned)

\* A parallel run over a dependency chain has returned with no failed task.
C4_Witness ==
    /\ mode = "parallel"
    /\ crew_pc = "returned"
    /\ \A t \in Tasks : task_status[t] = "completed"
    /\ \A t \in Tasks \ {1} : dependencies[t] = {t - 1}

\* C5: in a sequential run the context passed to a task's capability holds the
\* output of every task that completed before it, declared as a dependency or
\* not, and the context of the first task holds no task output.
C5_SequentialFullContext ==
    /\ mode = "sequential" =>
           \A t \in Invoked :
              /\ \A u \in Tasks :
                    (u < t /\ u \in DOMAIN outputs)
                    => /\ u \in DOMAIN call_context[t]
                       /\ call_context[t][u] = outputs[u]
              /\ t = 1 => DOMAIN call_context[t] \cap Tasks = {}
    /\ backup_mode = "sequential" =>
           \A t \in BackupInvoked :
              /\ \A u \in BackupTasks :
                    (u < t /\ u \in DOMAIN backup_result)
                    => /\ u \in DOMAIN backup_context[t]
                       /\ backup_context[t][u] = backup_result[u]
              /\ t = 1 => DOMAIN backup_context[t] \cap BackupTasks = {}

DependenciesMet(t) ==
    \A d \in dependencies[t] : d \in Tasks /\ d < t /\ task_status[d] = "completed"

C7_DeclaredDependencyContext ==
    /\ mode = "parallel" =>
           \A t \in Invoked :
              /\ DOMAIN call_context[t] = dependencies[t]
              /\ \A d \in dependencies[t] : call_context[t][d] = shared_outputs[d]
    /\ backup_mode = "parallel" =>
           \A t \in BackupInvoked :
              /\ DOMAIN backup_context[t] = task_dependencies(t)
              /\ \A d \in task_dependencies(t) : backup_context[t][d] = backup_result[d]

\* A task t was invoked in a parallel run when the output of a task u that it
\* does not declare was in the shared map: t waits for d, and d waited for u.
C7_Witness ==
    /\ mode = "parallel"
    /\ \E t \in Invoked : \E d \in dependencies[t] : \E u \in dependencies[d] :
          u # t /\ u \notin dependencies[t]

\* The feasibility loop has been left by its condition.
FeasibilityLoopLeft == auto_pc = "feasibility" /\ ~FeasibilityLoopCondition

\* Every score so far, the first one and every re-assessed one, is below 50.
ScoreAlwaysLow ==
    /\ average_feasibility_score < FeasibilityThreshold
    /\ \A i \in 1..Len(feature_iterations) :
          feature_iterations[i].before_score < FeasibilityThreshold

\* C8: in src/crew.py, with max_iterations = 3 and a score that stays below 50,
\* the feasibility loop is left after exactly 3 bodies, with total_iterations
\* = 3 and 3 triggers, all 'low_feasibility'.
C8_FeasibilityLoopRunsToCap ==
    (/\ impl = "main"
     /\ max_iterations = DefaultMaxIterations
     /\ FeasibilityLoopLeft
     /\ ScoreAlwaysLow)
    => /\ Len(feature_iterations) = 3
       /\ total_iterations = 3
       /\ iteration_triggers = <<"low_feasibility", "low_feasibility", "low_feasibility">>

\* The loop of src/crew.py has been left, with max_iterations = 3, after scores
\* that were all below 50.
C8_Witness ==
    /\ impl = "main"
    /\ max_iterations = DefaultMaxIterations
    /\ FeasibilityLoopLeft
    /\ ScoreAlwaysLow

\* The first body of the feasibility loop has run and its re-assessment
\* reported a score of at least 50.
FirstReassessmentHigh ==
    /\ max_iterations >= 1
    /\ Len(feature_iterations) = 1
    /\ feature_iterations[1].before_score < FeasibilityThreshold
    /\ total_iterations = 1
    /\ Len(sprint_iterations) = 0
    /\ average_feasibility_score >= FeasibilityThreshold

\* C9: when the first score is below 50 and the first re-assessment reports
\* at least 50, the feasibility loop has run its body once and runs it no
\* more, whatever max_iterations >= 1 is (src/crew.py and src/backup/crew.py).
C9_FeasibilityLoopEarlyExit ==
    [][FirstReassessmentHigh
          => /\ feature_iterations' = feature_iterations
             /\ average_feasibility_score' = average_feasibility_score]_vars

\* The backup's loop has been left after one body whose re-assessment
\* reported at least 50, with the largest max_iterations.
C9_Witness ==
    /\ impl = "backup"
    /\ max_iterations = MaxIterationsBound
    /\ FirstReassessmentHigh
    /\ auto_pc = "capacity"

DistinctIds(fs) ==
    \A i, j \in 1..Len(fs) : i # j => fs[i].feature_id # fs[j].feature_id

\* fs with its k-th element removed.
WithoutIndex(fs, k) == SubSeq(fs, 1, k - 1) \o SubSeq(fs, k + 1, Len(fs))

\* This step is a body of the capacity loop over candidates with distinct ids.
CapacityBody ==
    /\ Len(sprint_iterations') = Len(sprint_iterations) + 1
    /\ DistinctIds(refined_features)

FirstCapacityBody ==
    /\ adjusted_capacity' * 10 = adjusted_capacity * 11
    /\ refined_features' = refined_features

CapacityKept ==
    /\ adjusted_capacity' = adjusted_capacity
    /\ adjusted_capacity = IncreaseCapacity(original_capacity)

OneFeatureRemoved ==
    \E k \in 1..Len(refined_features) :
        refined_features' = WithoutIndex(refined_features, k)

\* C10: over candidates with distinct ids, the first body of the capacity loop
\* raises the adjusted capacity by exactly 10% and removes no feature; every
\* later body removes exactly one feature and leaves the capacity at the
\* first body's value.
C10_CapacityStrategyOrder ==
    [][CapacityBody
          => IF iteration_count = 0
             THEN FirstCapacityBody
             ELSE CapacityKept /\ OneFeatureRemoved]_vars

\* The capacity loop has run its first body and a later one that removed one
\* of several candidates with distinct ids.
C10_Witness ==
    /\ auto_pc = "capacity"
    /\ iteration_count = 2
    /\ adjusted_capacity = IncreaseCapacity(InitialCapacity)
    /\ Len(refined_features) = MaxFeatures - 1
    /\ DistinctIds(refined_features)

Ids(fs) == {fs[i].feature_id : i \in 1..Len(fs)}

\* This step is a body of the capacity loop that drops a feature.
FeatureDropped ==
    /\ Len(sprint_iterations') = Len(sprint_iterations) + 1
    /\ Len(refined_features') < Len(refined_features)

\* Candidate g is no worse than f: a better priority rank, or the same rank
\* and a feasibility score that is not lower.
NoWorseThan(g, f) ==
    \/ PriorityRank(g.priority) < PriorityRank(f.priority)
    \/ /\ PriorityRank(g.priority) = PriorityRank(f.priority)
       /\ g.feasibility_score >= f.feasibility_score

\* C11: the feature a body of the capacity loop drops is the worst candidate:
\* no remaining candidate has a worse priority rank, and none of the same rank
\* has a lower feasibility score.
C11_WorstDropped ==
    [][FeatureDropped
          => \A i \in 1..Len(refined_features) :
                refined_features[i].feature_id \notin Ids(refined_features')
                => \A j \in 1..Len(refined_features') :
                      NoWorseThan(refined_features'[j], refined_features[i])]_vars

\* C12: in both implementations each loop runs its body at most max_iterations
\* times (every body, completed or not, leaves one entry in its list), and
\* total_iterations is at most 2 * max_iterations.
C12_LoopsBounded ==
    /\ Len(feature_iterations) <= max_iterations
    /\ Len(sprint_iterations) <= max_iterations
    /\ total_iterations <= 2 * max_iterations

\* This step is a body of the feasibility loop that ran to completion.
FeasibilityBodyCompleted ==
    /\ Len(feature_iterations') = Len(feature_iterations) + 1
    /\ auto_pc' = "feasibility"

\* This step is a body of the capacity loop (it has no failure path).
CapacityBodyCompleted == Len(sprint_iterations') = Len(sprint_iterations) + 1

\* A run of 'low_feasibility' entries followed by a run of 'capacity_exceeded'.
TriggerRuns(triggers) ==
    \E k \in 0..Len(triggers) :
        \A i \in 1..Len(triggers) :
            triggers[i] = IF i <= k THEN "low_feasibility" ELSE "capacity_exceeded"

\* C13: total_iterations is the length of iteration_triggers, a completed
\* feasibility body appends one 'low_feasibility' and a capacity body one
\* 'capacity_exceeded', and the list is a run of the first followed by a run
\* of the second.
C13_TriggersCounted ==
    /\ [](total_iterations = Len(iteration_triggers) /\ TriggerRuns(iteration_triggers))
    /\ [][/\ FeasibilityBodyCompleted
             => iteration_triggers' = Append(iteration_triggers, "low_feasibility")
          /\ CapacityBodyCompleted
             => iteration_triggers' = Append(iteration_triggers, "capacity_exceeded")
          /\ ~(FeasibilityBodyCompleted \/ CapacityBodyCompleted)
             => iteration_triggers' = iteration_triggers]_vars

\* Both loops have run: the trigger list holds entries of both kinds, in a run
\* of src/crew.py or of the backup.
C13_Witness ==
    /\ auto_pc = "saved"
    /\ Len(feature_iterations) >= 2
    /\ Len(sprint_iterations) >= 2
    /\ total_iterations = Len(feature_iterations) + Len(sprint_iterations)

\* C14: in the backup, a body of the feasibility loop that raises leaves
\* total_iterations and iteration_triggers as they were and ends the loop: no
\* further body runs, the exception does not leave run_autonomous, and the run
\* goes on through sprint planning to the saving of its metrics.
C14_BackupBreakContinues ==
    /\ [][(impl = "backup" /\ auto_pc' = "broken")
             => /\ total_iterations' = total_iterations
                /\ iteration_triggers' = iteration_triggers]_vars
    /\ [][auto_pc # "feasibility" => feature_iterations' = feature_iterations]_vars
    /\ [](impl = "backup" => auto_pc # "raised")
    /\ (auto_pc = "broken") ~> (auto_pc = "saved")

\* A backup run whose feasibility loop completed a body and then broke on an
\* error has saved its metrics.
C14_Witness ==
    /\ impl = "backup"
    /\ auto_pc = "saved"
    /\ total_iterations - Len(sprint_iterations) >= 1
    /\ Len(feature_iterations) = total_iterations - Len(sprint_iterations) + 1

\* C15: the entry of a feasibility-loop body that ran to completion holds
\* before_score, after_score and improvement: before_score is the average score
\* that triggered the body, after_score the re-assessed average score, and
\* improvement their difference.
C15_EntryScores ==
    [][FeasibilityBodyCompleted
         => LET e == feature_iterations'[Len(feature_iterations')]
            IN  /\ {"before_score", "after_score", "improvement"} \subseteq DOMAIN e
                /\ e.before_score = average_feasibility_score
                /\ e.after_score = average_feasibility_score'
                /\ e.improvement = e.after_score - e.before_score]_vars

\* The positions of the registry entries with key k, and of the calls of
\* add_task with id k.
EntriesOf(d, k) == {i \in 1..Len(d) : d[i].task_id = k}

LastOf(S) == CHOOSE i \in S : \A j \in S : j <= i

\* C16: the registry holds exactly one entry for every id that add_task was
\* called with, holding the task of the last call with that id, and no entry for
\* any other id; a call of add_task leaves the entries of all other ids as they
\* were.
C16_AddTaskOverwrites ==
    /\ [](\A k \in Tasks :
            LET calls == EntriesOf(add_task_calls, k)
            IN  IF calls = {}
                THEN EntriesOf(tasks, k) = {}
                ELSE /\ Cardinality(EntriesOf(tasks, k)) = 1
                     /\ \A i \in EntriesOf(tasks, k) :
                           tasks[i].task = add_task_calls[LastOf(calls)].task)
    /\ [][add_task_calls' # add_task_calls
            => \A k \in Tasks \ {add_task_calls'[Len(add_task_calls')].task_id} :
                  /\ EntriesOf(tasks', k) = EntriesOf(tasks, k)
                  /\ \A i \in EntriesOf(tasks, k) : tasks'[i] = tasks[i]]_vars

\* add_task was called twice with one id and two different tasks, after
\* another id was registered.
C16_Witness ==
    /\ Len(add_task_calls) = MaxAddTaskCalls
    /\ add_task_calls[1].task_id # add_task_calls[2].task_id
    /\ add_task_calls[2].task_id = add_task_calls[3].task_id
    /\ add_task_calls[2].task # add_task_calls[3].task
    /\ Len(tasks) = 2

\* A step of the run that assigns an item of Crew.outputs: a completed pass of
\* the sequential loop, or one get of the parallel coordinator.
OutputsWritten ==
    \/ drained' # drained
    \/ /\ seq_i' # seq_i
       /\ task_status'[seq_i] = "completed"

\* C17: during a run Crew.outputs only grows: every key stays with the value it
\* has, and every write adds a key that was not there, so that no task's output
\* is written twice.
C17_OutputsWriteOnce ==
    [][/\ \A k \in DOMAIN outputs : k \in DOMAIN outputs' /\ outputs'[k] = outputs[k]
       /\ OutputsWritten
            => Cardinality(DOMAIN outputs') = Cardinality(DOMAIN outputs) + 1
       /\ ~OutputsWritten => outputs' = outputs]_vars

\* A parallel run has returned with an output for every task, one of them the
\* error text of a task that raised.
C17_Witness ==
    /\ mode = "parallel"
    /\ crew_pc = "returned"
    /\ DOMAIN outputs = Tasks
    /\ \E t \in Tasks : outputs[t] # TaskOutput(t)

\* The ids of the tasks the loop has visited, in the order of their 'running'
\* progress updates.
VisitedIds ==
    LET running == SelectSeq(progress_calls, LAMBDA c : c[2] = "running")
    IN  [i \in 1..Len(running) |-> running[i][1]]

\* A pass of the sequential loop in which the task was executed and raised.
SeqTaskRaised ==
    /\ mode = "sequential"
    /\ invocations' = Append(invocations, seq_i)
    /\ seq_i \notin DOMAIN outputs'

\* C18: when a task raises in run_sequential the error is logged, the task's
\* status becomes 'error' and the loop goes on with the next task; every
\* registered task is visited in registration order, run_sequential never
\* raises, and it returns.
C18_SequentialErrorContinues ==
    /\ [][SeqTaskRaised
            => /\ Log("Error executing task", seq_i) \in execution_log'
               /\ task_status'[seq_i] = "error"
               /\ crew_pc' = "seq"
               /\ seq_i' = seq_i + 1]_vars
    /\ [](mode = "sequential" => crew_pc # "raised")
    /\ []((mode = "sequential" /\ crew_pc = "returned")
            => VisitedIds = [i \in 1..NumTasks |-> i])
    /\ (mode = "sequential" /\ crew_pc = "seq") ~> (crew_pc = "returned")

\* A sequential run has returned after its first task raised and its last task
\* completed.
C18_Witness ==
    /\ mode = "sequential"
    /\ crew_pc = "returned"
    /\ task_status[1] = "error"
    /\ task_status[NumTasks] = "completed"

\* The API call of Agent.execute_task failed for task t: the value that
\* task.execute returned to the Crew is the error text.
ReturnedApiError(t) ==
    IF mode = "parallel"
    THEN task_result[t] = ApiErrorString(t)
    ELSE t \in DOMAIN outputs /\ outputs[t] = ApiErrorString(t)

\* C19: a failed API call inside Agent.execute_task does not raise to the
\* Crew: the task's status is 'completed', the error text is the task's result
\* when the run returns, every task that depends on it and was executed got the
\* error text as that dependency's context, and the tasks that depend on it are
\* executed in a run that returns (in a sequential run, when their dependencies
\* were registered earlier and completed).
C19_ApiErrorIsResult ==
    \A t \in Tasks :
       ReturnedApiError(t)
       => /\ task_status[t] = "completed"
          /\ crew_pc # "raised"
          /\ crew_pc = "returned"
                => /\ t \in DOMAIN outputs /\ outputs[t] = ApiErrorString(t)
                   /\ t \in DOMAIN result /\ result[t] = ApiErrorString(t)
          /\ \A u \in Invoked :
                t \in dependencies[u]
                => /\ t \in DOMAIN call_context[u]
                   /\ call_context[u][t] = ApiErrorString(t)
          /\ crew_pc = "returned"
                => \A u \in Tasks :
                      (t \in dependencies[u] /\ (mode = "parallel" \/ DependenciesMet(u)))
                      => u \in Invoked

\* A sequential run has returned in which a task's API call failed and a task
\* that depends on it was executed with the error text in its context.
C19_Witness ==
    /\ mode = "sequential"
    /\ crew_pc = "returned"
    /\ \E t \in Tasks, u \in Invoked :
          /\ ReturnedApiError(t)
          /\ t \in dependencies[u]
          /\ call_context[u][t] = ApiErrorString(t)

\* Every task's declared dependencies are registered before it.
DependenciesRegisteredEarlier ==
    \A t \in Tasks : \A d \in dependencies[t] : d \in Tasks /\ d < t

\* C20: a sequential run in which every task's dependencies are registered
\* before it and no capability raises invokes every capability exactly once, in
\* registration order, and returns a result with one entry for every registered
\* task, holding the value that task's capability returned, next to the entries
\* of the initial context.
C20_SequentialHappyPath ==
    (/\ mode = "sequential"
     /\ crew_pc = "returned"
     /\ DependenciesRegisteredEarlier
     /\ \A t \in Tasks : task_status[t] # "error")
    => /\ invocations = [i \in 1..NumTasks |-> i]
       /\ DOMAIN result = Tasks \cup DOMAIN initial_context
       /\ \A t \in Tasks : /\ result[t] \in execute_task(t)
                           /\ result[t] = outputs[t]
                           /\ task_status[t] = "completed"

\* A sequential run of the linear chain has returned with every task
\* completed.
C20_Witness ==
    /\ mode = "sequential"
    /\ crew_pc = "returned"
    /\ \A t \in Tasks : dependencies[t] = (IF t = 1 THEN {} ELSE {t - 1})
    /\ \A t \in Tasks : task_status[t] = "completed"
    /\ DOMAIN result = Tasks

\* The ids of the items in the completion queue.
Queued == {result_queue[i][1] : i \in 1..Len(result_queue)}

\* C21: in run_parallel the shared map never gets an entry for an id that is
\* not registered or for a task whose capability raised, and as long as a
\* declared dependency of a task has no entry there the task's capability has
\* not been invoked, no item for the task is in the completion queue or in the
\* outputs, and run_parallel has not returned.
C21_MissingDependencyBlocks ==
    mode = "parallel"
    => /\ DOMAIN shared_outputs \subseteq Tasks
       /\ \A d \in Tasks : task_status[d] = "error" => d \notin DOMAIN shared_outputs
       /\ \A t \in Tasks : \A d \in dependencies[t] :
             d \notin DOMAIN shared_outputs
             => /\ t \notin Invoked
                /\ t \notin Queued
                /\ t \notin DOMAIN outputs
                /\ worker_pc[t] # "done"
                /\ crew_pc # "returned"

\* Every thread of a parallel run has ended or waits: one task waits for an id
\* that is not registered, another for a task whose capability raised.
C21_Witness ==
    /\ mode = "parallel"
    /\ crew_pc = "par"
    /\ \A t \in Tasks : worker_pc[t] \in {"wait", "done"}
    /\ \E t \in Tasks : worker_pc[t] = "wait" /\ Dangling \in dependencies[t]
    /\ \E t, d \in Tasks :
          /\ worker_pc[t] = "wait"
          /\ d \in dependencies[t]
          /\ task_status[d] = "error"
          /\ worker_pc[d] = "done"

\* The registered tasks reached from the set S along declared dependencies in
\* at most n further steps.
RECURSIVE ReachedFrom(_, _)
ReachedFrom(S, n) ==
    IF n = 0 THEN S
    ELSE ReachedFrom(S \cup UNION {dependencies[x] \cap Tasks : x \in S}, n - 1)

\* The tasks that t depends on, directly or transitively.
TransitiveDependencies(t) == ReachedFrom(dependencies[t] \cap Tasks, NumTasks)

OnCycle(t) == t \in TransitiveDependencies(t)

\* t is on a dependency cycle or depends on a task that is.
BlockedByCycle(t) == OnCycle(t) \/ \E u \in TransitiveDependencies(t) : OnCycle(u)

\* C22: in run_parallel a task that is on a dependency cycle, or depends on
\* one, never invokes its capability and never ends; no error is logged and no
\* status other than 'running' is set for it, and with such a task the run
\* neither returns nor raises.
C22_CycleDeadlocksSilently ==
    mode = "parallel"
    => \A t \in Tasks :
          BlockedByCycle(t)
          => /\ t \notin Invoked
             /\ worker_pc[t] \in {"idle", "start", "wait", "polled"}
             /\ task_status[t] \in {"none", "running"}
             /\ Log("Error executing task", t) \notin execution_log
             /\ t \notin Queued
             /\ crew_pc \notin {"returned", "raised"}

\* Two tasks that declare each other wait, a third one that depends on one of
\* them waits too, and no thread can take a step.
C22_Witness ==
    /\ mode = "parallel"
    /\ crew_pc = "par"
    /\ \A t \in Tasks : worker_pc[t] = "wait"
    /\ \E t, u, v \in Tasks :
          /\ t # u /\ u \in dependencies[t] /\ t \in dependencies[u]
          /\ ~OnCycle(v) /\ BlockedByCycle(v)
    /\ \A t \in Tasks : Dangling \notin dependencies[t]

\* A pass of the sequential loop for a task with a declared dependency that
\* has no entry in outputs.
SeqPassWithMissingDependency ==
    /\ mode = "sequential"
    /\ seq_i' = seq_i + 1
    /\ \E d \in dependencies[seq_i] : d \notin DOMAIN outputs

\* C23: in run_sequential the pass of a task with a declared dependency that
\* has no entry in outputs logs the skip, sets the task's status to 'skipped',
\* invokes nothing and adds nothing to outputs or to the result; the task stays
\* skipped, uninvoked and without an entry for the rest of the run.
C23_SkippedNotRetried ==
    /\ [][SeqPassWithMissingDependency
            => /\ Log("Skipping task due to unsatisfied dependencies", seq_i)
                     \in execution_log'
               /\ task_status'[seq_i] = "skipped"
               /\ invocations' = invocations
               /\ outputs' = outputs
               /\ result' = result]_vars
    /\ [][\A t \in Tasks : task_status[t] = "skipped" => task_status'[t] = "skipped"]_vars
    /\ [](\A t \in Tasks :
             task_status[t] = "skipped"
             => /\ t \notin Invoked
                /\ t \notin DOMAIN outputs
                /\ t \notin DOMAIN result)

\* A sequential run has returned in which a task was skipped and the
\* dependency it missed, registered after it, completed later.
C23_Witness ==
    /\ mode = "sequential"
    /\ crew_pc = "returned"
    /\ \E t, d \in Tasks :
          /\ t < d
          /\ d \in dependencies[t]
          /\ task_status[t] = "skipped"
          /\ task_status[d] = "completed"
          /\ d \in DOMAIN outputs

FinalStatuses == {"completed", "error", "skipped"}

CrewUntouched ==
    /\ invocations = << >>
    /\ outputs = EmptyDict
    /\ task_status = [t \in Tasks |-> "none"]
    /\ execution_log = {}
    /\ progress_calls = << >>

\* C25: Crew.run runs run_sequential for mode 'sequential' and run_parallel
\* for mode 'parallel'; for any other mode it raises and leaves the Crew
\* untouched.  The mapping a run returns holds every entry of the initial
\* context whose key is not a task id, and the task results.
C25_RunDispatch ==
    /\ mode = "sequential"
          => /\ crew_pc \in {"idle", "ready", "seq", "returned"}
             /\ crew_pc \in {"seq", "returned"}
                   <=> Log("Starting sequential workflow", 0) \in execution_log
             /\ Log("Starting parallel workflow", 0) \notin execution_log
             /\ \A t \in Tasks : worker_pc[t] = "idle"
    /\ mode = "parallel"
          => /\ crew_pc \in {"ready", "par", "returned"}
             /\ crew_pc \in {"par", "returned"}
                   <=> Log("Starting parallel workflow", 0) \in execution_log
             /\ Log("Starting sequential workflow", 0) \notin execution_log
             /\ seq_i = 1
    /\ mode \notin {"sequential", "parallel"}
          => /\ crew_pc \in {"ready", "raised"}
             /\ CrewUntouched
    /\ crew_pc = "raised" => mode \notin {"sequential", "parallel"}
    /\ crew_pc = "returned"
          => /\ \A k \in DOMAIN initial_context \ Tasks :
                   k \in DOMAIN result /\ result[k] = initial_context[k]
             /\ \A t \in DOMAIN outputs : t \in DOMAIN result /\ result[t] = outputs[t]
             /\ DOMAIN result = DOMAIN initial_context \cup DOMAIN outputs

\* A parallel run with a non-empty initial context has returned with a result
\* for every task.
C25_Witness ==
    /\ mode = "parallel"
    /\ crew_pc = "returned"
    /\ initial_context # EmptyDict
    /\ DOMAIN outputs = Tasks
    /\ DOMAIN result = Tasks \cup {ContextKey}

\* Where a worker of run_parallel is inside a with outputs_lock block.
InsideLockBlock == {"polled", "ctx_held", "stored"}

\* The workers of the Crew of src/direct_agents read and write shared_outputs
\* only while they hold outputs_lock, which one thread holds at a time.
DirectLockDiscipline ==
    /\ [](/\ outputs_lock \in Tasks \cup {Unlocked}
          /\ \A t \in Tasks : worker_pc[t] \in InsideLockBlock <=> outputs_lock = t
          /\ Cardinality({t \in Tasks : worker_pc[t] \in InsideLockBlock}) <= 1)
    /\ [][\A t \in Tasks :
             (worker_pc[t] \in {"wait", "ctx", "store"} /\ worker_pc'[t] # worker_pc[t])
             => outputs_lock = Unlocked /\ outputs_lock' = t]_vars
    /\ [][\A t \in Tasks :
             (\/ wait_idx'[t] # wait_idx[t]
              \/ task_context'[t] # task_context[t]
              \/ (crew_pc = "par" /\ shared_outputs' # shared_outputs
                    /\ t \in DOMAIN shared_outputs' \ DOMAIN shared_outputs))
             => outputs_lock' = t]_vars

\* A step in which thread t of the backup's run_parallel reads the shared
\* result: its polls find the dependency, or it builds its context items.
BackupThreadReads(t) ==
    /\ backup_thread_pc[t] \in {"wait", "ctx"}
    /\ backup_thread_pc'[t] # backup_thread_pc[t]

BackupLockDiscipline ==
    [][\A t \in BackupTasks : BackupThreadReads(t) => backup_lock_holder = t]_vars

\* C26: in run_parallel every read and write of the shared output map by a
\* worker happens while the worker holds the mutex, which at most one thread
\* holds at a time, in src/direct_agents/crew.py and in src/backup/crew.py.
C26_MutexGuardsSharedMap == DirectLockDiscipline /\ BackupLockDiscipline

\* C27: in run_parallel the coordinator never inserts the entry of a task into
\* Crew.outputs and the returned mapping before the entries of the task's
\* declared dependencies: whenever a task has an entry, each of its declared
\* dependencies has one.
C27_InsertionRespectsDependencies ==
    mode = "parallel"
    => \A t \in Tasks :
          (t \in DOMAIN outputs /\ t \in DOMAIN result)
          => /\ dependencies[t] \subseteq DOMAIN outputs
             /\ dependencies[t] \subseteq DOMAIN result

\* C28: without a resolvable API key nothing raises: the construction of an
\* Agent does not raise, and DirectAnthropicExecutor.execute_task returns, so
\* that no run of the backup crew is left by an exception and none of its
\* threads dies.
C28_FailsClosed ==
    /\ agent_init # "raised"
    /\ ~backup_api_key
          => /\ backup_pc # "raised"
             /\ \A t \in BackupTasks : backup_thread_pc[t] # "dead"

\* C29: run_sequential of a fresh Crew invokes a task's capability only when
\* every declared dependency of the task has an entry in outputs; a visited
\* task with a dependency that is registered after it, or not at all, is
\* skipped, and so is a visited task one of whose direct or transitive
\* dependencies was skipped or raised.
C29_SequentialDependencyGate ==
    /\ [][(mode = "sequential" /\ invocations' # invocations)
            => /\ invocations' = Append(invocations, seq_i)
               /\ dependencies[seq_i] \subseteq DOMAIN outputs]_vars
    /\ [](mode = "sequential"
            => \A t \in 1..(seq_i - 1) :
                  /\ (\E d \in dependencies[t] : d >= t) => task_status[t] = "skipped"
                  /\ (\E u \in TransitiveDependencies(t) :
                         task_status[u] \in {"skipped", "error"})
                     => task_status[t] = "skipped"
                  /\ task_status[t] = "skipped" <=> t \notin Invoked)

\* A sequential run has returned in which the first task raised, the second,
\* which depends on it, was skipped, and the third, which depends on the second
\* only, was skipped too.
C29_Witness ==
    /\ mode = "sequential"
    /\ crew_pc = "returned"
    /\ \E t, u, v \in Tasks :
          /\ t < u /\ u < v
          /\ dependencies[u] = {t} /\ dependencies[v] = {u}
          /\ task_status[t] = "error"
          /\ task_status[u] = "skipped"
          /\ task_status[v] = "skipped"


\* ------------------------------------------- the stock sprint_organization

\* Estimates that story_point_estimation produces (Fibonacci numbers), in
\* tenths of a point like the capacities.
StoryPoints == {80, 210}

\* capacity['adjusted_capacity'] in tenths: negative, zero, and two team sizes.
PlanCapacities == {-100, 0, 100, 400}

EstimatedFeaturePool ==
    [feature_id : 1..MaxFeatures, priority : Priorities, feasibility_score : {58, 93},
     story_points : StoryPoints]

\* The refined features that reach sprint_organization: the i-th has id i.
EstimatedFeatureLists ==
    UNION { {fs \in [1..n -> EstimatedFeaturePool] : \A i \in 1..n : fs[i].feature_id = i}
            : n \in 0..MaxFeatures }

RECURSIVE SortedIndices(_, _)
\* sorted(features, key=lambda x: (rank, -feasibility_score)), lines 137-143 of
\* src/backup/tools/planning_tools.py, as the indices of features in the order
\* of the result: the sort is stable, so equal keys keep their order.
SortedIndices(features, remaining) ==
    IF remaining = {} THEN << >>
    ELSE LET first == CHOOSE i \in remaining : \A j \in remaining \ {i} :
                          \/ KeyLess(features[i], features[j])
                          \/ /\ ~KeyLess(features[j], features[i])
                             /\ i < j
         IN  <<first>> \o SortedIndices(features, remaining \ {first})

sorted_features(features) ==
    LET order == SortedIndices(features, 1..Len(features))
    IN  [k \in 1..Len(features) |-> features[order[k]]]

RECURSIVE SumStoryPoints(_)
SumStoryPoints(sprint_features) ==
    IF sprint_features = << >> THEN 0
    ELSE Head(sprint_features).story_points + SumStoryPoints(Tail(sprint_features))

RECURSIVE Allocate(_, _, _, _)
\* The allocation loop, lines 150-156: from the k-th sorted feature on, a
\* feature is taken when it still fits into available_capacity.
Allocate(sorted, k, sprint_features, available_capacity) ==
    IF k > Len(sorted) THEN sprint_features
    ELSE Allocate(sorted, k + 1,
                  IF SumStoryPoints(sprint_features) + sorted[k].story_points
                        <= available_capacity
                  THEN Append(sprint_features, sorted[k])
                  ELSE sprint_features,
                  available_capacity)

\* (total_story_points / available_capacity) * 100 if available_capacity > 0
\* else 0, line 159, rounded up to a whole percent: a quotient above 100 stays
\* above 100, and one of at most 100 stays at most 100.
Utilization(total_story_points, available_capacity) ==
    IF available_capacity > 0
    THEN (total_story_points * 100 + available_capacity - 1) \div available_capacity
    ELSE 0

\* A sprint_organization without the test of line 154: every feature is taken.
SprintOrganizationUnchecked(capacity, features) ==
    LET sprint_features == sorted_features(features)
        total_story_points == SumStoryPoints(sprint_features)
    IN  [features |-> sprint_features,
         total_story_points |-> total_story_points,
         capacity_utilization |-> Utilization(total_story_points, capacity)]

\* PlanningTools.sprint_organization, the keys of the plan that run_autonomous
\* and the callers of the tool read.
sprint_organization(capacity, features) ==
    LET sprint_features == Allocate(sorted_features(features), 1, << >>, capacity)
        total_story_points == SumStoryPoints(sprint_features)
    IN  [features |-> sprint_features,
         total_story_points |-> total_story_points,
         capacity_utilization |-> Utilization(total_story_points, capacity)]

\* The inputs of the first sprint plan: run_autonomous has left the feasibility
\* loop, capacity and refined_features are the arguments of line 411.
PlanInit ==
    /\ impl \in {"main", "backup"}
    /\ auto_pc = "planning"
    /\ max_iterations \in 0..MaxIterationsBound
    /\ average_feasibility_score \in Scores
    /\ iteration_count = 0
    /\ total_iterations = 0
    /\ iteration_triggers = << >>
    /\ feature_iterations = << >>
    /\ sprint_iterations = << >>
    /\ adjusted_capacity \in PlanCapacities
    /\ original_capacity = 0
    /\ refined_features \in EstimatedFeatureLists
    /\ feature_proposals = << >>
    /\ capacity_utilization = 0

\* The first sprint plan, src/crew.py lines 411-415, with the plan computed by
\* sprint_organization.
StockSprintPlanning ==
    /\ auto_pc = "planning"
    /\ auto_pc' = "capacity"
    /\ capacity_utilization' =
          sprint_organization(adjusted_capacity, refined_features).capacity_utilization
    /\ original_capacity' = adjusted_capacity
    /\ iteration_count' = 0
    /\ UNCHANGED <<feature_proposals, impl, max_iterations, average_feasibility_score, total_iterations,
                   iteration_triggers, feature_iterations, sprint_iterations,
                   adjusted_capacity, refined_features>>
    /\ UNCHANGED <<crewVars, backupVars, regVars>>

\* The capacity loop of src/crew.py lines 418-474 with the plans computed by
\* sprint_organization: one body when the condition of lines 418-419 holds,
\* else the loop is left and iteration_metrics is saved.
StockCapacityLoop ==
    /\ auto_pc = "capacity"
    /\ IF CapacityLoopCondition
       THEN /\ adjusted_capacity' = AdjustedCapacity(iteration_count, adjusted_capacity)
            /\ refined_features' = AdjustedFeatures(iteration_count, refined_features)
            /\ capacity_utilization' =
                  sprint_organization(adjusted_capacity',
                                      refined_features').capacity_utilization
            /\ sprint_iterations' =
                  Append(sprint_iterations,
                         SprintEntryDone(SprintEntry(iteration_count + 1,
                                                     capacity_utilization,
                                                     adjusted_capacity),
                                         capacity_utilization'))
            /\ iteration_count' = iteration_count + 1
            /\ total_iterations' = total_iterations + 1
            /\ iteration_triggers' = Append(iteration_triggers, "capacity_exceeded")
            /\ UNCHANGED <<feature_proposals, impl, auto_pc, max_iterations, average_feasibility_score,
                           feature_iterations, original_capacity>>
       ELSE /\ auto_pc' = "saved"
            /\ UNCHANGED <<feature_proposals, impl, max_iterations, average_feasibility_score,
                           iteration_count, total_iterations, iteration_triggers,
                           feature_iterations, sprint_iterations, adjusted_capacity,
                           original_capacity, refined_features, capacity_utilization>>
    /\ UNCHANGED <<crewVars, backupVars, regVars>>

PlanNext ==
    \/ StockSprintPlanning
    \/ StockCapacityLoop

InitPlan == PlanInit /\ CrewIdle /\ BackupIdle /\ RegIdle

\* run_autonomous from its first sprint plan on, the plans made by the stock
\* sprint_organization.
SpecPlan == InitPlan /\ [][PlanNext]_vars

\* C30: for every capacity and feature list, the plan of sprint_organization
\* has total_story_points <= adjusted_capacity when the capacity is positive,
\* a capacity_utilization of at most 100, and of 0 when the capacity is not
\* positive; the capacity loop of run_autonomous, fed by these plans, runs no
\* body and appends no 'capacity_exceeded' trigger.
C30_StockPlanWithinCapacity ==
    LET plan == sprint_organization(adjusted_capacity, refined_features)
    IN  /\ adjusted_capacity > 0 => plan.total_story_points <= adjusted_capacity
        /\ plan.capacity_utilization <= UtilizationThreshold
        /\ adjusted_capacity <= 0 => plan.capacity_utilization = 0
        /\ auto_pc \in {"capacity", "saved"} =>
              capacity_utilization = plan.capacity_utilization
        /\ iteration_count = 0
        /\ total_iterations = 0
        /\ sprint_iterations = << >>
        /\ \A i \in 1..Len(iteration_triggers) :
              iteration_triggers[i] # "capacity_exceeded"

\* The loop was left with a plan that had to leave a feature out because it no
\* longer fitted, although iterations were allowed.
C30_Witness ==
    LET plan == sprint_organization(adjusted_capacity, refined_features)
    IN  /\ auto_pc = "saved"
        /\ max_iterations > 0
        /\ adjusted_capacity > 0
        /\ plan.features # << >>
        /\ Len(plan.features) < Len(refined_features)
        /\ SumStoryPoints(refined_features) > adjusted_capacity
        /\ iteration_triggers = << >>


\* ---------------------------------------------- the stock TechnicalTools

\* Values of a proposal's impact_score on both sides of the tests of lines 45-53
\* of src/tools/technical_tools.py.
ImpactScores == {40, 41, 60, 61, 80, 81}

\* A feature proposal: simplified counts how often the body of the feasibility
\* loop has put "Simplified " before the title (and "Simplified version of: "
\* before the description), 0 for the proposal as it was generated.
ProposalPool == [id : 1..MaxFeatures, impact_score : ImpactScores, simplified : {0}]

\* The non-empty lists of proposals: the i-th has id i, or the id of the first
\* one (a list whose ids are not distinct).
ProposalLists ==
    UNION { {fs \in [1..n -> ProposalPool] : \A i \in 1..n : fs[i].id \in {1, i}}
            : n \in 1..MaxFeatures }

\* The complexity, story points and developer days chosen at lines 45-60.
Complexity(impact) ==
    IF impact > 80 THEN [complexity |-> "Complex", story_points |-> 13, developer_days |-> 10]
    ELSE IF impact > 60 THEN [complexity |-> "Moderate", story_points |-> 8, developer_days |-> 5]
    ELSE IF impact > 40 THEN [complexity |-> "Simple", story_points |-> 5, developer_days |-> 3]
    ELSE [complexity |-> "Very Simple", story_points |-> 3, developer_days |-> 1]

\* The assessment of lines 63-82 for one proposal and its complexity.
Assessment(feature, c) ==
    [feature_id |-> feature.id,
     title_simplified |-> feature.simplified,
     complexity |-> c.complexity,
     story_points |-> c.story_points,
     developer_days |-> c.developer_days,
     risks |-> << IF c.complexity \in {"Complex", "Moderate"} THEN "Medium" ELSE "Low" >>]

\* A complexity_analysis that rates the proposals of the highest impact
\* "Very Complex".
ComplexityAnalysisVeryComplex(fs) ==
    [i \in 1..Len(fs) |->
        LET c == Complexity(fs[i].impact_score)
        IN  Assessment(fs[i], IF fs[i].impact_score > 80
                              THEN [c EXCEPT !.complexity = "Very Complex"] ELSE c)]

\* TechnicalTools.complexity_analysis, lines 22-90.
complexity_analysis(fs) ==
    [i \in 1..Len(fs) |-> Assessment(fs[i], Complexity(fs[i].impact_score))]

\* The score of lines 213-227 for one assessment: the base of the complexity,
\* less 2 for every risk and 5 more for every risk of severity "High", clamped
\* to 10..100.
FeasibilityScore(assessment) ==
    LET base == CASE assessment.complexity = "Very Complex" -> 40
                  [] assessment.complexity = "Complex" -> 60
                  [] assessment.complexity = "Moderate" -> 80
                  [] OTHER -> 95
        risk_count == Len(assessment.risks)
        high_risk_count ==
            Cardinality({k \in 1..Len(assessment.risks) : assessment.risks[k] = "High"})
        score == base - (risk_count * 2 + high_risk_count * 5)
        capped == IF score < 100 THEN score ELSE 100
    IN  IF capped > 10 THEN capped ELSE 10

RECURSIVE SumScores(_)
SumScores(scores) ==
    IF scores = << >> THEN 0 ELSE Head(scores) + SumScores(Tail(scores))

\* TechnicalTools.effort_estimation, lines 192-244, for a non-empty list of
\* assessments (an empty one divides by zero at line 236).  The average is
\* rounded down to a whole number, which changes no comparison with a whole
\* threshold.
effort_estimation(complexity_assessments) ==
    LET scores == [i \in 1..Len(complexity_assessments) |->
                      FeasibilityScore(complexity_assessments[i])]
    IN  [assessments |-> [i \in 1..Len(complexity_assessments) |->
                             [feature_id |-> complexity_assessments[i].feature_id,
                              complexity |-> complexity_assessments[i].complexity,
                              feasibility_score |-> scores[i]]],
         total_story_points |->
             SumScores([i \in 1..Len(complexity_assessments) |->
                           complexity_assessments[i].story_points]),
         average_feasibility_score |->
             SumScores(scores) \div Len(complexity_assessments)]

\* The proposals after the regeneration of src/crew.py lines 365-374: a
\* proposal is simplified when the first assessment with its id has a
\* feasibility_score below 50.
Regenerated(fs, assessments) ==
    [i \in 1..Len(fs) |->
        LET matching == {k \in 1..Len(assessments) : assessments[k].feature_id = fs[i].id}
        IN  IF /\ matching # {}
               /\ assessments[CHOOSE k \in matching : \A m \in matching : k <= m]
                     .feasibility_score < FeasibilityThreshold
            THEN [fs[i] EXCEPT !.simplified = @ + 1]
            ELSE fs[i]]

\* The proposals that reach the first assessment, src/crew.py lines 330-331.
AssessInit ==
    /\ impl \in {"main", "backup"}
    /\ auto_pc = "assessing"
    /\ max_iterations \in 0..MaxIterationsBound
    /\ average_feasibility_score = 0
    /\ iteration_count = 0
    /\ total_iterations = 0
    /\ iteration_triggers = << >>
    /\ feature_iterations = << >>
    /\ sprint_iterations = << >>
    /\ adjusted_capacity = 0
    /\ original_capacity = 0
    /\ refined_features = << >>
    /\ feature_proposals \in ProposalLists
    /\ capacity_utilization = 0

\* The first assessment, src/crew.py lines 330-334 (src/backup/crew.py lines
\* 545-577), made by the stock tools.
StockAssessment ==
    /\ auto_pc = "assessing"
    /\ auto_pc' = "feasibility"
    /\ average_feasibility_score' =
          effort_estimation(complexity_analysis(feature_proposals)).average_feasibility_score
    /\ iteration_count' = 0
    /\ UNCHANGED <<feature_proposals, impl, max_iterations, total_iterations,
                   iteration_triggers, feature_iterations, sprint_iterations,
                   adjusted_capacity, original_capacity, refined_features,
                   capacity_utilization>>
    /\ UNCHANGED <<crewVars, backupVars, regVars>>

\* The feasibility loop of src/crew.py lines 347-402 (src/backup/crew.py lines
\* 579-653) with the assessments made by the stock tools: one body when the
\* while condition holds, else the loop is left.
StockFeasibilityLoop ==
    /\ auto_pc = "feasibility"
    /\ IF FeasibilityLoopCondition
       THEN LET entry == FeatureEntry(iteration_count + 1, average_feasibility_score)
                before ==
                    effort_estimation(complexity_analysis(feature_proposals))
            IN  /\ impl = "backup" => Len(feature_iterations) < MaxLoopBodies
                /\ feature_proposals' = Regenerated(feature_proposals, before.assessments)
                /\ average_feasibility_score' =
                      effort_estimation(complexity_analysis(feature_proposals'))
                         .average_feasibility_score
                /\ iteration_count' =
                      IF impl = "main" THEN iteration_count + 1 ELSE iteration_count
                /\ total_iterations' = total_iterations + 1
                /\ iteration_triggers' = Append(iteration_triggers, "low_feasibility")
                /\ feature_iterations' =
                      Append(feature_iterations,
                             IF iteration_count' > 0
                             THEN FeatureEntryDone(entry, average_feasibility_score')
                             ELSE entry)
                /\ UNCHANGED auto_pc
       ELSE /\ auto_pc' = "assessed"
            /\ UNCHANGED <<feature_proposals, average_feasibility_score,
                           iteration_count, total_iterations, iteration_triggers,
                           feature_iterations>>
    /\ UNCHANGED <<impl, max_iterations, sprint_iterations, adjusted_capacity,
                   original_capacity, refined_features, capacity_utilization>>
    /\ UNCHANGED <<crewVars, backupVars, regVars>>

AssessNext ==
    \/ StockAssessment
    \/ StockFeasibilityLoop

InitAssess == AssessInit /\ CrewIdle /\ BackupIdle /\ RegIdle

\* run_autonomous from its first feasibility assessment to the end of the
\* feasibility loop, the assessments made by the stock TechnicalTools.
SpecAssess == InitAssess /\ [][AssessNext]_vars

\* C31: for every non-empty feature list, the assessments of
\* complexity_analysis followed by effort_estimation all have a
\* feasibility_score in {58, 78, 93}, so the average is at least 58, the
\* feasibility loop of run_autonomous runs no body, and no title or
\* description is rewritten.
C31_StockScoresKeepLoopIdle ==
    LET estimation == effort_estimation(complexity_analysis(feature_proposals))
    IN  /\ \A i \in 1..Len(estimation.assessments) :
              estimation.assessments[i].feasibility_score \in {58, 78, 93}
        /\ estimation.average_feasibility_score >= 58
        /\ auto_pc \in {"feasibility", "assessed"} =>
              average_feasibility_score = estimation.average_feasibility_score
        /\ iteration_count = 0
        /\ total_iterations = 0
        /\ feature_iterations = << >>
        /\ iteration_triggers = << >>
        /\ \A i \in 1..Len(feature_proposals) : feature_proposals[i].simplified = 0

\* The loop was left, with iterations allowed, after an assessment that rated
\* one proposal 58 and another one 93.
C31_Witness ==
    LET estimation == effort_estimation(complexity_analysis(feature_proposals))
    IN  /\ auto_pc = "assessed"
        /\ max_iterations > 0
        /\ \E i, j \in 1..Len(estimation.assessments) :
              /\ estimation.assessments[i].feasibility_score = 58
              /\ estimation.assessments[j].feasibility_score = 93
        /\ average_feasibility_score = estimation.average_feasibility_score
        /\ feature_iterations = << >>


\* C32: whenever run_autonomous reaches the point where iteration_metrics is
\* saved, total_iterations equals len(feature_iterations) +
\* len(sprint_iterations), in src/crew.py and in src/backup/crew.py, also
\* after a feasibility loop that was left on an error.
C32_TotalCountsEntries ==
    auto_pc = "saved" =>
        total_iterations = Len(feature_iterations) + Len(sprint_iterations)

\* The same for src/crew.py alone, where an error in the feasibility loop
\* leaves run_autonomous before anything is saved.
C32_MainTotalCountsEntries ==
    (impl = "main" /\ auto_pc = "saved") =>
        total_iterations = Len(feature_iterations) + Len(sprint_iterations)


\* The workers of run_parallel that are past their dependency wait and have
\* not ended.
PastWait == {"ctx", "ctx_held", "exec", "store", "stored", "put"}

\* The tasks whose item was put on the completion queue: still queued, or
\* taken by the coordinator.
ItemPut == Queued \cup (DOMAIN result \cap Tasks)

C33_QueueItems ==
    mode = "parallel"
    => /\ Len(result_queue) + drained <= NumTasks
       /\ \A i, j \in 1..Len(result_queue) :
             result_queue[i][1] = result_queue[j][1] => i = j
       /\ Queued \cap DOMAIN result = {}
       /\ Cardinality(DOMAIN result \cap Tasks) = drained
       /\ \A t \in Tasks : t \in ItemPut <=> worker_pc[t] = "done"
       /\ \A t \in ItemPut : t \in Invoked

C33_PutStep ==
    result_queue' # result_queue /\ Len(result_queue') >= Len(result_queue)
    => \E t \in Tasks :
          /\ worker_pc[t] = "put"
          /\ t \in Invoked
          /\ task_status[t] \in {"completed", "error"}
          /\ result_queue' = Append(result_queue, <<t, task_result[t]>>)
          /\ worker_pc'[t] = "done"

\* C33: in run_parallel every worker that gets past its dependency wait puts
\* exactly one item on the completion queue, after a result and after an
\* exception alike, and only after its task execution has returned or raised;
\* the queue never receives more than len(tasks) items and never two items of
\* the same task.
C33_OnePutPerWorker ==
    /\ [](C33_QueueItems)
    /\ [][C33_PutStep]_vars
    /\ \A t \in Tasks : (mode = "parallel" /\ worker_pc[t] \in PastWait)
                           ~> (worker_pc[t] = "done" /\ t \in ItemPut)

\* Every worker of a parallel run has ended and put its item, one after an
\* exception and one after a result of a task that had to wait.
C33_Witness ==
    /\ mode = "parallel"
    /\ \A t \in Tasks : worker_pc[t] = "done" /\ t \in ItemPut
    /\ \E t \in Tasks : task_status[t] = "error"
    /\ \E t \in Tasks : task_status[t] = "completed" /\ dependencies[t] # {}
    /\ Len(result_queue) + drained = NumTasks


RECURSIVE FirstRegistrations(_)
\* The ids of a sequence of add_task calls, each at the place of its first call.
FirstRegistrations(calls) ==
    IF calls = << >> THEN << >>
    ELSE LET earlier == FirstRegistrations(SubSeq(calls, 1, Len(calls) - 1))
             k == calls[Len(calls)].task_id
         IN  IF \E i \in 1..Len(earlier) : earlier[i] = k
             THEN earlier ELSE Append(earlier, k)

\* C34: registering an existing id again with add_task leaves the id at its
\* place in the registration order, so the order in which run_sequential
\* visits the tasks is the order of the first registration of each id, and the
\* task visited for an id is the one registered last.
C34_ReRegistrationKeepsOrder ==
    /\ []( /\ [i \in 1..Len(task_items) |-> task_items[i][1]]
                = FirstRegistrations(add_task_calls)
           /\ \A i \in 1..Len(task_items) :
                 task_items[i][2]
                    = add_task_calls[LastOf(EntriesOf(add_task_calls,
                                                      task_items[i][1]))].task )
    /\ [][(/\ add_task_calls' # add_task_calls
           /\ add_task_calls'[Len(add_task_calls')].task_id \in Keys(tasks))
          => /\ Len(tasks') = Len(tasks)
             /\ \A i \in 1..Len(tasks) : tasks'[i].task_id = tasks[i].task_id]_vars

\* The id registered first was registered again, with another task, after a
\* second id: it is still visited first, with the task of the last call.
C34_Witness ==
    /\ Len(add_task_calls) = MaxAddTaskCalls
    /\ add_task_calls[1].task_id = add_task_calls[3].task_id
    /\ add_task_calls[1].task_id # add_task_calls[2].task_id
    /\ add_task_calls[1].task # add_task_calls[3].task
    /\ Len(task_items) = 2
    /\ task_items[1] = <<add_task_calls[1].task_id, add_task_calls[3].task>>
    /\ task_items[2][1] = add_task_calls[2].task_id


\* ------------------------------------------------------------ Task.execute

\* The number of Task.execute calls on one task that are followed.
MaxExecuteCalls == 2

Item(key, val) == [key |-> key, val |-> val]

ListOf(vals) == [kind |-> "list", items |-> [i \in 1..Len(vals) |-> Item("", vals[i])]]

\* The contexts a caller may store in a task or pass to execute: None, lists,
\* mappings and strings, empty and not.
ContextValues ==
    {None}
    \cup {ListOf(vals) : vals \in {<< >>, <<1>>, <<2>>, <<1, 2>>}}
    \cup {[kind |-> "dict", items |-> its] :
             its \in {<< >>, <<Item("a", 1)>>, <<Item("a", 2)>>, <<Item("b", 1)>>,
                      <<Item("a", 1), Item("b", 2)>>}}
    \cup {[kind |-> "str", items |-> its] : its \in {<< >>, <<Item("", 1)>>}}

\* bool(value): None and the empty list, mapping and string are false.
Truthy(value) == value.items # << >>

\* str(value): a string stays as it is; a list or a mapping is rendered
\* between its brackets.
Str(value) ==
    IF value.kind = "str" THEN value.items
    ELSE <<Item(value.kind, 0)>> \o value.items \o <<Item(value.kind, 0)>>

RECURSIVE DictUpdate(_, _)
\* d.update(a) on the items of two mappings: the value of a key of d is
\* replaced where it stands, a new key is added at the end.
DictUpdate(d, a) ==
    IF a = << >> THEN d
    ELSE LET e == Head(a)
             updated == IF \E i \in 1..Len(d) : d[i].key = e.key
                        THEN [i \in 1..Len(d) |-> IF d[i].key = e.key THEN e ELSE d[i]]
                        ELSE Append(d, e)
         IN  DictUpdate(updated, Tail(a))

\* combined_context at line 77 of src/direct_agents/task.py, the value passed to
\* the agent.
CombinedContext(context, additional_context) ==
    IF ~Truthy(additional_context) THEN context
    ELSE IF context.kind = "none" THEN additional_context
    ELSE IF context.kind = "list" /\ additional_context.kind = "list"
         THEN [kind |-> "list", items |-> context.items \o additional_context.items]
    ELSE IF context.kind = "dict" /\ additional_context.kind = "dict"
         THEN [kind |-> "dict", items |-> DictUpdate(context.items, additional_context.items)]
    ELSE LET context_str == IF Truthy(context) THEN Str(context) ELSE << >>
             additional_str == Str(additional_context)
         IN  [kind |-> "str",
              items |-> IF context_str # << >>
                        THEN context_str \o <<Item("\n", 0)>> \o additional_str
                        ELSE additional_str]

\* A Task.execute that combines the contexts in a copy and leaves self.context
\* alone.
StoredContextCopied(context, additional_context) == context

\* self.context after lines 60-74: combined_context is the same object as
\* self.context, so extend (line 66) and update (line 68) change the stored
\* context; the other branches only rebind the local name.
StoredContext(context, additional_context) ==
    IF /\ Truthy(additional_context)
       /\ context.kind = additional_context.kind
       /\ context.kind \in {"list", "dict"}
    THEN CombinedContext(context, additional_context)
    ELSE context

\* Task.__init__, lines 22-48: a task with or without a stored context and
\* with or without dependencies.
TaskInit ==
    /\ task_self \in [description : {"describe"}, context : ContextValues,
                      dependencies : {<< >>, <<1>>}]
    /\ execute_calls = << >>
    /\ tasks = << >>
    /\ add_task_calls = << >>
    /\ agent_init = "constructed"

\* Task.execute, lines 50-77.
Task_execute(additional_context) ==
    /\ Len(execute_calls) < MaxExecuteCalls
    /\ task_self' = [task_self EXCEPT
                        !.context = StoredContext(task_self.context, additional_context)]
    /\ execute_calls' =
          Append(execute_calls,
                 [additional_context |-> additional_context,
                  task_description |-> task_self.description,
                  combined_context |->
                      CombinedContext(task_self.context, additional_context)])
    /\ UNCHANGED <<tasks, add_task_calls, agent_init, crewVars, autoVars, backupVars>>

TaskNext == \E additional_context \in ContextValues : Task_execute(additional_context)

InitTask == TaskInit /\ CrewIdle /\ AutoIdle /\ BackupIdle

\* One Task and the calls of its execute.
SpecTask == InitTask /\ [][TaskNext]_vars

\* The stored and the additional context are both lists or both mappings.
SameContainer(context, additional_context) ==
    /\ context.kind = additional_context.kind
    /\ context.kind \in {"list", "dict"}

\* C35: Task.execute changes the stored context only when the stored and the
\* additional context are both lists (the stored list is extended) or both
\* mappings (the stored mapping is updated); with no stored context, an empty
\* additional context or mixed types the stored context is unchanged;
\* description and dependencies are never changed.
C35_ExecuteStoredContext ==
    [][execute_calls' # execute_calls
       => LET additional == execute_calls'[Len(execute_calls')].additional_context
              context == task_self.context
          IN  /\ task_self'.description = task_self.description
              /\ task_self'.dependencies = task_self.dependencies
              /\ task_self'.context # context => SameContainer(context, additional)
              /\ (\/ context.kind = "none"
                  \/ ~Truthy(additional)
                  \/ ~SameContainer(context, additional))
                 => task_self'.context = context
              /\ (Truthy(additional) /\ SameContainer(context, additional))
                 => /\ task_self'.context.kind = context.kind
                    /\ context.kind = "list" =>
                          task_self'.context.items = context.items \o additional.items
                    /\ context.kind = "dict" =>
                          /\ \A i \in 1..Len(additional.items) :
                                \E j \in 1..Len(task_self'.context.items) :
                                   task_self'.context.items[j] = additional.items[i]
                          /\ \A i \in 1..Len(context.items) :
                                task_self'.context.items[i].key = context.items[i].key]_vars

\* A task with a stored list was executed twice with the same non-empty list:
\* the stored list has grown by it twice.
C35_Witness ==
    /\ Len(execute_calls) = MaxExecuteCalls
    /\ execute_calls[1].additional_context = execute_calls[2].additional_context
    /\ execute_calls[1].additional_context.kind = "list"
    /\ Truthy(execute_calls[1].additional_context)
    /\ task_self.context.kind = "list"
    /\ execute_calls[2].combined_context.items =
          execute_calls[1].combined_context.items
             \o execute_calls[2].additional_context.items
    /\ task_self.context = execute_calls[2].combined_context

=============================================================================
